---- MODULE Spec2Model ----
(***************************************************************************)
(* Directive dispatch and timer tasks of the Marvin voice assistant        *)
(* (main.py, display.py).  Text is modelled as a tuple of one-character    *)
(* strings, so that the parsing code is modelled by what it computes.      *)
(***************************************************************************)
EXTENDS Integers, Sequences, FiniteSets, TLC

\* ------------------------------------------------------------------ bounds
\* largest number of pieces the text of a completion is made of
MaxPieces == 3
\* largest number of characters of a directive whose parsing is tried
MaxRawLen == 4
\* largest number of comma-separated parameters written in a directive
MaxParams == 3
\* total number of directives dispatched in one run of the turn loop
MaxDirectives == 3
\* largest magnitude of the integer written in a timer duration
MaxValue == 3

\* ------------------------------------------------------- character strings
Uppers == <<"A","B","C","D","E","F","G","H","I","J","K","L","M","N","O","P","Q","R","S","T","U","V","W","X","Y","Z">>
Lowers == <<"a","b","c","d","e","f","g","h","i","j","k","l","m","n","o","p","q","r","s","t","u","v","w","x","y","z">>
Digits == <<"0","1","2","3","4","5","6","7","8","9">>
Whitespace == {" ", "\t", "\n"}

IsDigit(c) == \E i \in 1..10 : Digits[i] = c
DigitVal(c) == (CHOOSE i \in 1..10 : Digits[i] = c) - 1
\* \w of the re module: letters, digits and the underscore
IsWord(c) == IsDigit(c) \/ c = "_" \/ (\E i \in 1..26 : Uppers[i] = c \/ Lowers[i] = c)

lower_char(c) ==
  IF \E i \in 1..26 : Uppers[i] = c
    THEN Lowers[CHOOSE i \in 1..26 : Uppers[i] = c]
    ELSE c

\* lower that leaves the text as it is
lower_kept(s) == s

\* str.lower()
lower(s) == [i \in 1..Len(s) |-> lower_char(s[i])]

\* str.replace(a, b) for one-character a and b
replace(s, a, b) == [i \in 1..Len(s) |-> IF s[i] = a THEN b ELSE s[i]]

\* str.startswith(p)
startswith(s, p) == Len(p) <= Len(s) /\ SubSeq(s, 1, Len(p)) = p

\* str.find(c) + 1 for a one-character c: 0 when c does not occur
find(s, c) ==
  IF \E i \in 1..Len(s) : s[i] = c
    THEN CHOOSE i \in 1..Len(s) : s[i] = c /\ \A j \in 1..(i-1) : s[j] # c
    ELSE 0

RECURSIVE lstrip(_)
lstrip(s) == IF s # <<>> /\ Head(s) \in Whitespace THEN lstrip(Tail(s)) ELSE s

RECURSIVE rstrip(_)
rstrip(s) ==
  IF s # <<>> /\ s[Len(s)] \in Whitespace THEN rstrip(SubSeq(s, 1, Len(s)-1)) ELSE s

\* str.strip()
strip(s) == rstrip(lstrip(s))

\* split_on that stops at the first separator, as split(c, 1) does
split_once(s, c) ==
  LET i == find(s, c) IN
    IF i = 0 THEN <<s>> ELSE <<SubSeq(s, 1, i-1), SubSeq(s, i+1, Len(s))>>

\* str.split(c) for a one-character separator c
RECURSIVE split_on(_, _)
split_on(s, c) ==
  LET i == find(s, c) IN
    IF i = 0 THEN <<s>>
    ELSE <<SubSeq(s, 1, i-1)>> \o split_on(SubSeq(s, i+1, Len(s)), c)

\* str.split(): the maximal runs of non-whitespace characters
RECURSIVE split(_)
split(s) ==
  LET t == lstrip(s) IN
    IF t = <<>> THEN <<>>
    ELSE IF \E i \in 1..Len(t) : t[i] \in Whitespace
      THEN LET j == CHOOSE i \in 1..Len(t) :
                      t[i] \in Whitespace /\ \A k \in 1..(i-1) : t[k] \notin Whitespace
           IN <<SubSeq(t, 1, j-1)>> \o split(SubSeq(t, j, Len(t)))
      ELSE <<t>>

\* value of a run of decimal digits
RECURSIVE DigitsValue(_)
DigitsValue(s) ==
  IF s = <<>> THEN 0 ELSE 10 * DigitsValue(SubSeq(s, 1, Len(s)-1)) + DigitVal(s[Len(s)])

\* the text int() accepts: optional surrounding whitespace, an optional sign,
\* then digits, single underscores allowed between digits
IntBody(s) ==
  LET t == strip(s) IN
    IF t # <<>> /\ t[1] \in {"-", "+"} THEN Tail(t) ELSE t

IsInt(s) ==
  LET b == IntBody(s) IN
    /\ b # <<>>
    /\ \A i \in 1..Len(b) : IsDigit(b[i]) \/ b[i] = "_"
    /\ IsDigit(b[1]) /\ IsDigit(b[Len(b)])
    /\ \A i \in 1..(Len(b)-1) : ~(b[i] = "_" /\ b[i+1] = "_")

\* int(s) where IsInt(s); ValueError otherwise
int(s) ==
  LET t == strip(s)
      b == SelectSeq(IntBody(s), IsDigit)
  IN IF t[1] = "-" THEN 0 - DigitsValue(b) ELSE DigitsValue(b)

\* str(n) of an integer
RECURSIVE NatStr(_)
NatStr(n) == IF n < 10 THEN <<Digits[n+1]>> ELSE NatStr(n \div 10) \o <<Digits[(n % 10) + 1]>>

str(n) == IF n < 0 THEN <<"-">> \o NatStr(0 - n) ELSE NatStr(n)

\* re.match(r'(\d+)(\w+)', s): [matched, g1, g2].  \d+ takes the leading
\* digits greedily and gives one back when no word character follows them.
LeadDigits(s) ==
  IF \E i \in 1..Len(s) : ~IsDigit(s[i])
    THEN (CHOOSE i \in 1..Len(s) : ~IsDigit(s[i]) /\ \A j \in 1..(i-1) : IsDigit(s[j])) - 1
    ELSE Len(s)

LeadWords(s) ==
  IF \E i \in 1..Len(s) : ~IsWord(s[i])
    THEN (CHOOSE i \in 1..Len(s) : ~IsWord(s[i]) /\ \A j \in 1..(i-1) : IsWord(s[j])) - 1
    ELSE Len(s)

match_num_unit(s) ==
  LET k == LeadDigits(s)
      rest == SubSeq(s, k+1, Len(s))
      w == LeadWords(rest)
  IN IF k >= 1 /\ w >= 1
       THEN [matched |-> TRUE, g1 |-> SubSeq(s, 1, k), g2 |-> SubSeq(rest, 1, w)]
     ELSE IF k >= 2
       THEN [matched |-> TRUE, g1 |-> SubSeq(s, 1, k-1), g2 |-> <<s[k]>>]
     ELSE [matched |-> FALSE, g1 |-> <<>>, g2 |-> <<>>]

\* ------------------------------------------------- the reply of the model
open_tag == <<"<","a","c","t","i","o","n",">">>
close_tag == <<"<","/","a","c","t","i","o","n",">">>

\* the literal lit stands in s at position i
LitAt(s, i, lit) == i + Len(lit) - 1 <= Len(s) /\ SubSeq(s, i, i + Len(lit) - 1) = lit

\* the same under re.IGNORECASE, for a lower-case lit
LitAtAnyCase(s, i, lit) ==
  i + Len(lit) - 1 <= Len(s) /\ lower(SubSeq(s, i, i + Len(lit) - 1)) = lit

\* first position >= i where lit stands in any case, 0 when there is none
FirstAt(s, i, lit) ==
  IF \E j \in i..Len(s) : LitAtAnyCase(s, j, lit)
    THEN CHOOSE j \in i..Len(s) :
           LitAtAnyCase(s, j, lit) /\ \A k \in i..(j-1) : ~LitAtAnyCase(s, k, lit)
    ELSE 0

\* ActionMatch with a greedy .* : the last closing marker of the line
ActionMatch_greedy(s, i) ==
  IF ~LitAtAnyCase(s, i, open_tag) THEN 0
  ELSE LET ends == {j \in (i + Len(open_tag))..Len(s) :
                      /\ LitAtAnyCase(s, j, close_tag)
                      /\ \A k \in (i + Len(open_tag))..(j-1) : s[k] # "\n"}
       IN IF ends = {} THEN 0 ELSE CHOOSE j \in ends : \A k \in ends : k <= j

\* r'<action>(.*?)</action>' with re.IGNORECASE tried at position i: the
\* position of the closing marker that ends the match, 0 when it fails.
\* The lazy .*? stops at the first closing marker, and . takes no newline.
ActionMatch(s, i) ==
  IF ~LitAtAnyCase(s, i, open_tag) THEN 0
  ELSE LET j == FirstAt(s, i + Len(open_tag), close_tag) IN
    IF j > 0 /\ \A k \in (i + Len(open_tag))..(j-1) : s[k] # "\n" THEN j ELSE 0

\* re.findall(r'<action>(.*?)</action>', s, flags=re.IGNORECASE), from i on
RECURSIVE FindFrom(_, _)
FindFrom(s, i) ==
  IF i > Len(s) THEN <<>>
  ELSE LET j == ActionMatch(s, i) IN
    IF j > 0
      THEN <<SubSeq(s, i + Len(open_tag), j - 1)>> \o FindFrom(s, j + Len(close_tag))
      ELSE FindFrom(s, i + 1)

findall(s) == FindFrom(s, 1)

\* re.sub(r'<action>.*?</action>', '', s, flags=re.IGNORECASE), from i on
RECURSIVE SubActionFrom(_, _)
SubActionFrom(s, i) ==
  IF i > Len(s) THEN <<>>
  ELSE LET j == ActionMatch(s, i) IN
    IF j > 0 THEN SubActionFrom(s, j + Len(close_tag))
    ELSE <<s[i]>> \o SubActionFrom(s, i + 1)

sub_action(s) == SubActionFrom(s, 1)

\* r'<[^>]+>' tried at position i: the position of the '>' that ends the
\* match, 0 when it fails
TagMatch(s, i) ==
  IF s[i] # "<" \/ ~\E j \in (i+1)..Len(s) : s[j] = ">" THEN 0
  ELSE LET j == CHOOSE j \in (i+1)..Len(s) : s[j] = ">" /\ \A k \in (i+1)..(j-1) : s[k] # ">"
       IN IF j >= i + 2 THEN j ELSE 0

\* re.sub(r'<[^>]+>', '', s), from i on
RECURSIVE SubTagsFrom(_, _)
SubTagsFrom(s, i) ==
  IF i > Len(s) THEN <<>>
  ELSE LET j == TagMatch(s, i) IN
    IF j > 0 THEN SubTagsFrom(s, j + 1) ELSE <<s[i]>> \o SubTagsFrom(s, i + 1)

sub_tags(s) == SubTagsFrom(s, 1)

\* \b after the literal that ends before position p
BoundaryAt(s, p) == p > Len(s) \/ ~IsWord(s[p])

\* the lookahead (?!/?action\b) at position p
NotActionAhead(s, p) ==
  LET word == SubSeq(open_tag, 2, 7) IN
    /\ ~(LitAt(s, p, word) /\ BoundaryAt(s, p + 6))
    /\ ~(LitAt(s, p, <<"/">> \o word) /\ BoundaryAt(s, p + 7))

\* llm.py 71: re.sub(r'<(?!/?action\b)[^>]+>', '', s), from i on
RECURSIVE SubOtherTagsFrom(_, _)
SubOtherTagsFrom(s, i) ==
  IF i > Len(s) THEN <<>>
  ELSE LET j == IF NotActionAhead(s, i + 1) THEN TagMatch(s, i) ELSE 0 IN
    IF j > 0 THEN SubOtherTagsFrom(s, j + 1) ELSE <<s[i]>> \o SubOtherTagsFrom(s, i + 1)

\* llm.py 72: re.sub(r'\s+', ' ', s)
RECURSIVE collapse(_)
collapse(s) ==
  IF s = <<>> THEN <<>>
  ELSE IF Head(s) \in Whitespace THEN <<" ">> \o collapse(lstrip(s))
  ELSE <<Head(s)>> \o collapse(Tail(s))

IsNotStar(c) == c # "*"

\* llm.py 64-75
clean_generated_text(original_text) ==
  LET t1 == SubOtherTagsFrom(original_text, 1)
      t2 == strip(collapse(t1))
      t3 == SelectSeq(t2, IsNotStar)
  IN strip(t3)

\* main.py 111-113
text_to_speak(reply) == strip(sub_tags(sub_action(reply)))

\* ------------------------------------------------------------ action names
s_turn_on_light == <<"t","u","r","n","_","o","n","_","l","i","g","h","t">>
s_turn_off_light == <<"t","u","r","n","_","o","f","f","_","l","i","g","h","t">>
s_play_song == <<"p","l","a","y","_","s","o","n","g">>
s_play_playlist == <<"p","l","a","y","_","p","l","a","y","l","i","s","t">>
s_pause_music == <<"p","a","u","s","e","_","m","u","s","i","c">>
s_unpause_music == <<"u","n","p","a","u","s","e","_","m","u","s","i","c">>
s_stop_music == <<"s","t","o","p","_","m","u","s","i","c">>
s_volume_up == <<"v","o","l","u","m","e","_","u","p">>
s_volume_down == <<"v","o","l","u","m","e","_","d","o","w","n">>
s_reboot == <<"r","e","b","o","o","t">>
s_set_timer == <<"s","e","t","_","t","i","m","e","r">>
s_start_timer == <<"s","t","a","r","t","_","t","i","m","e","r">>
s_stop_timer == <<"s","t","o","p","_","t","i","m","e","r">>
s_shut_down == <<"s","h","u","t","_","d","o","w","n">>
s_read_file == <<"r","e","a","d","_","f","i","l","e">>
s_browse_internet == <<"b","r","o","w","s","e","_","i","n","t","e","r","n","e","t">>
s_write_file == <<"w","r","i","t","e","_","f","i","l","e">>
s_list_files == <<"l","i","s","t","_","f","i","l","e","s">>
s_delete_file == <<"d","e","l","e","t","e","_","f","i","l","e">>
s_edit_file == <<"e","d","i","t","_","f","i","l","e">>
s_append_to_file == <<"a","p","p","e","n","d","_","t","o","_","f","i","l","e">>
s_create_directory == <<"c","r","e","a","t","e","_","d","i","r","e","c","t","o","r","y">>
s_move_file == <<"m","o","v","e","_","f","i","l","e">>
s_copy_file == <<"c","o","p","y","_","f","i","l","e">>
s_search_files == <<"s","e","a","r","c","h","_","f","i","l","e","s">>
s_get_time == <<"g","e","t","_","t","i","m","e">>
s_dictate == <<"d","i","c","t","a","t","e">>
s_write_code == <<"w","r","i","t","e","_","c","o","d","e">>
s_true == <<"t","r","u","e">>

\* ------------------------------------------------- parsing of a directive
\* main.py 122-137: normalisation, split on the first colon, comma split
ParseDirective(action) ==
  LET normalized_action == replace(lower(action), " ", "_")
      c == find(normalized_action, ":")
      params_text == SubSeq(normalized_action, c+1, Len(normalized_action))
      parts == split_on(params_text, ",")
  IN IF c > 0
       THEN [normalized_action |-> normalized_action,
             action_name |-> SubSeq(normalized_action, 1, c-1),
             params |-> IF find(params_text, ",") > 0
                          THEN [i \in 1..Len(parts) |-> strip(parts[i])]
                          ELSE <<strip(params_text)>>]
       ELSE [normalized_action |-> normalized_action,
             action_name |-> normalized_action,
             params |-> <<>>]

\* the if/elif chain of main.py 150-408, in its order: the prefix tested and
\* the branch it selects
Chain ==
  << <<s_turn_on_light, "turn_on_light">>, <<s_turn_off_light, "turn_off_light">>,
     <<s_play_song, "play_song">>, <<s_play_playlist, "play_playlist">>,
     <<s_pause_music, "pause_music">>, <<s_unpause_music, "unpause_music">>,
     <<s_stop_music, "stop_music">>, <<s_volume_up, "volume_up">>,
     <<s_volume_down, "volume_down">>, <<s_reboot, "reboot">>,
     <<s_set_timer, "set_timer">>, <<s_start_timer, "set_timer">>,
     <<s_stop_timer, "stop_timer">>, <<s_shut_down, "shut_down">>,
     <<s_read_file, "read_file">>, <<s_browse_internet, "browse_internet">>,
     <<s_write_file, "write_file">>, <<s_list_files, "list_files">>,
     <<s_delete_file, "delete_file">>, <<s_edit_file, "edit_file">>,
     <<s_append_to_file, "append_to_file">>, <<s_create_directory, "create_directory">>,
     <<s_move_file, "move_file">>, <<s_copy_file, "copy_file">>,
     <<s_search_files, "search_files">>, <<s_get_time, "get_time">>,
     <<s_dictate, "dictate">>, <<s_write_code, "write_code">> >>

\* actions.py 4-14: the names joined into the system prompt (llm.py 38)
action_strings ==
  {s_turn_on_light, s_turn_off_light, s_play_song, s_play_playlist,
   s_pause_music, s_unpause_music, s_volume_up, s_volume_down,
   s_reboot, s_set_timer, s_stop_timer, s_shut_down, s_stop_music,
   s_read_file, s_write_file, s_list_files, s_delete_file,
   s_edit_file, s_append_to_file, s_create_directory,
   s_move_file, s_copy_file, s_search_files}

\* does some branch of the chain handle the action name
IsHandled(action_name) == \E i \in 1..Len(Chain) : startswith(action_name, Chain[i][1])

\* Branch with the prefix test turned round: the tested name starts with
\* the action name
Branch_reversed(action_name) ==
  IF \E i \in 1..Len(Chain) : startswith(Chain[i][1], action_name)
    THEN Chain[CHOOSE i \in 1..Len(Chain) :
                 /\ startswith(Chain[i][1], action_name)
                 /\ \A j \in 1..(i-1) : ~startswith(Chain[j][1], action_name)][2]
    ELSE "unknown"

\* Branch that takes a name only when it equals the tested name
Branch_exact(action_name) ==
  IF \E i \in 1..Len(Chain) : Chain[i][1] = action_name
    THEN Chain[CHOOSE i \in 1..Len(Chain) : Chain[i][1] = action_name][2]
    ELSE "unknown"

\* the first branch of the chain whose prefix test succeeds; the final else
Branch(action_name) ==
  IF IsHandled(action_name)
    THEN Chain[CHOOSE i \in 1..Len(Chain) :
                 /\ startswith(action_name, Chain[i][1])
                 /\ \A j \in 1..(i-1) : ~startswith(action_name, Chain[j][1])][2]
    ELSE "unknown"

\* --------------------------------------------------- set_timer's parsing
seconds_tok == <<"s","e","c","o","n","d","s">>

unit_map ==
  { << <<"s">>, "second">>, << <<"s","e","c">>, "second">>,
    << <<"s","e","c","o","n","d">>, "second">>, << <<"s","e","c","o","n","d","s">>, "second">>,
    << <<"m">>, "minute">>, << <<"m","i","n">>, "minute">>,
    << <<"m","i","n","u","t","e">>, "minute">>, << <<"m","i","n","u","t","e","s">>, "minute">>,
    << <<"h">>, "hour">>, << <<"h","r">>, "hour">>,
    << <<"h","o","u","r">>, "hour">>, << <<"h","o","u","r","s">>, "hour">> }

UnitTokens == {e[1] : e \in unit_map}

\* SecondsOf with the hour taken for a minute
SecondsOf_hour60(value, unit) ==
  IF unit \in {"minute", "hour"} THEN value * 60 ELSE value

\* main.py 487-492
SecondsOf(value, unit) ==
  IF unit = "minute" THEN value * 60
  ELSE IF unit = "hour" THEN value * 3600
  ELSE value

\* main.py 428-465: [ok, value, unit_input, say]
ParseValueUnit(duration) ==
  LET duration_parts == split(duration)
      m == match_num_unit(duration)
      bad(msg) == [ok |-> FALSE, value |-> 0, unit_input |-> <<>>, say |-> msg]
      good(v, u) == [ok |-> TRUE, value |-> v, unit_input |-> u, say |-> ""]
  IN IF Len(duration_parts) = 2
       THEN IF IsInt(duration_parts[1])
              THEN good(int(duration_parts[1]), lower(duration_parts[2]))
              ELSE bad("Invalid timer format. The value must be a number.")
     ELSE IF IsInt(duration) THEN good(int(duration), seconds_tok)
     ELSE IF m.matched THEN good(int(m.g1), lower(m.g2))
     ELSE bad("Invalid timer format. Use format like 5 minutes or 5m.")

\* main.py 428-492: [ok, seconds, say]
ParseDuration(duration) ==
  LET p == ParseValueUnit(duration) IN
    IF ~p.ok THEN [ok |-> FALSE, seconds |-> 0, say |-> p.say]
    ELSE IF p.unit_input \in UnitTokens
      THEN [ok |-> TRUE,
            seconds |-> SecondsOf(p.value, (CHOOSE e \in unit_map : e[1] = p.unit_input)[2]),
            say |-> ""]
      ELSE [ok |-> FALSE, seconds |-> 0,
            say |-> "Invalid time unit. Use seconds, minutes, or hours."]

\* ------------------------------------------------ the handler of a branch
\* A handler is the sequence of the steps its branch performs:
\*   call    a synchronous collaborator call (no suspension of the turn loop)
\*   acall   an awaited collaborator coroutine
\*   speak   await speak_text(...), which always suspends the turn loop
\*   create_task / stop_timer / unknown / exit
\* raises: the call has no try/except of its own, so an error of the service
\* leaves it as an exception; caught: the call site has a try/except.
\* results: the truth values of what the call may return.
Step(op, tag, arg) ==
  [op |-> op, tag |-> tag, arg |-> arg, raises |-> FALSE, caught |-> FALSE,
   results |-> {"ok", "fail"}, ok_msg |-> "", fail_msg |-> ""]

Call(tag, arg) == Step("call", tag, arg)
CallRaising(tag, arg) == [Step("call", tag, arg) EXCEPT !.raises = TRUE]
\* Speak that only logs the message
Speak_logged(msg) == Step("unknown", msg, <<>>)

Speak(msg) == [Step("speak", "speak_text", <<>>) EXCEPT !.ok_msg = msg, !.fail_msg = msg]
SpeakResult(ok, fail) ==
  [Step("speak", "speak_text", <<>>) EXCEPT !.ok_msg = ok, !.fail_msg = fail]

\* the character SUPERSCRIPT TWO (U+00B2), written as one element of a text:
\* a digit for str.isdigit(), no digit for int()
sup2 == "sup2"

\* str.isdigit(): every character is a Unicode digit, the decimal digits and
\* the superscript digits among them
isdigit(s) == s # <<>> /\ \A i \in 1..Len(s) : IsDigit(s[i]) \/ s[i] = sup2

\* handle_dictate that types the text as it was handed over
handle_dictate_kept(dictated_text) == dictated_text

\* dictate.py 3-7: the text keyboard.write receives
handle_dictate(dictated_text) ==
  IF startswith(dictated_text, <<":">>) THEN lstrip(Tail(dictated_text)) ELSE dictated_text

\* spotify.py 31-170, meross_control.py 54-93: the methods the music client
\* and the light controller have
CollaboratorMethods ==
  {"spotify.play_track", "spotify.play_playlist", "spotify.pause_music",
   "spotify.unpause_music", "spotify.volume_up", "spotify.volume_down",
   "meross.turn_on_light", "meross.turn_off_light", "meross.close", "meross.shutdown"}

\* FileOperations._validate_path raises ValueError for a path naming '..'
IsTraversal(path) == \E i \in 1..(Len(path)-1) : path[i] = "." /\ path[i+1] = "."

\* main.py 150-411: the steps of the branch taken for a parsed directive;
\* action is the raw directive text
Plan(branch, params, action) ==
  LET L == Len(params)
      first == IF L > 0 THEN params[1] ELSE <<>>
      flag == IF L <= 2 \/ lower(params[3]) = s_true THEN TRUE ELSE FALSE
      delta == IF L > 0 /\ isdigit(first) THEN int(first) ELSE 10
      \* isdigit() accepted a text that int() rejects: ValueError
      bad_int == L > 0 /\ isdigit(first) /\ ~IsInt(first)
      int_error == [CallRaising("int", <<first>>) EXCEPT !.results = {}]
      tail(n) == strip(SubSeq(action, n+1, Len(action)))
  IN
  CASE branch = "turn_on_light" ->
         << [Step("acall", "meross.turn_on_light", <<>>) EXCEPT !.raises = TRUE, !.results = {"ok"}] >>
    [] branch = "turn_off_light" ->
         << [Step("acall", "meross.turn_off_light", <<>>) EXCEPT !.raises = TRUE, !.results = {"ok"}] >>
    [] branch = "play_song" ->
         IF first # <<>> THEN << CallRaising("spotify.play_track", <<first>>) >> ELSE <<>>
    [] branch = "play_playlist" ->
         IF first # <<>> THEN << Call("spotify.play_playlist", <<first>>) >> ELSE <<>>
    [] branch = "pause_music" -> << Call("spotify.pause_music", <<>>) >>
    [] branch = "unpause_music" -> << Call("spotify.unpause_music", <<>>) >>
    [] branch = "stop_music" ->
         \* SpotifyClient defines no stop_music: the attribute lookup raises
         << [CallRaising("spotify.stop_music", <<>>) EXCEPT !.results = {}] >>
    [] branch = "volume_up" ->
         IF bad_int THEN << int_error >> ELSE << Call("spotify.volume_up", <<delta>>) >>
    [] branch = "volume_down" ->
         IF bad_int THEN << int_error >> ELSE << Call("spotify.volume_down", <<delta>>) >>
    [] branch = "reboot" ->
         << Speak("Marvin rebooting"), Step("exit", "reboot", <<>>) >>
    [] branch = "set_timer" ->
         IF first # <<>>
           THEN << Step("create_task", "set_timer", <<replace(first, "_", " ")>>) >>
           ELSE <<>>
    [] branch = "stop_timer" -> << Step("stop_timer", "stop_timer", <<>>) >>
    [] branch = "shut_down" ->
         << Speak("Shutting down Marvin"),
            [Step("acall", "meross.shutdown", <<>>) EXCEPT !.results = {"ok"}],
            Step("exit", "shut_down", <<>>) >>
    [] branch = "read_file" ->
         IF first # <<>>
           THEN << Call("file_ops.read_file", <<first>>),
                   SpeakResult("Content of file", "Could not read file") >>
           ELSE << Speak("No filename specified for reading") >>
    [] branch = "browse_internet" ->
         IF first # <<>>
           THEN << [Step("acall", "agent.run", <<first>>) EXCEPT !.raises = TRUE, !.caught = TRUE],
                   SpeakResult("Browser search result",
                               "I encountered an error while browsing the internet.") >>
           ELSE << Speak("No search query specified for browsing the internet.") >>
    [] branch = "write_file" ->
         IF L >= 2
           THEN << Call("file_ops.write_file", <<params[1], params[2], flag>>),
                   SpeakResult("Successfully wrote to file", "Failed to write to file") >>
           ELSE << Speak("Insufficient parameters for writing a file") >>
    [] branch = "list_files" ->
         << [Call("file_ops.list_files", <<first>>) EXCEPT !.raises = IsTraversal(first)],
            SpeakResult("Found files", "No files found") >>
    [] branch = "delete_file" ->
         IF first # <<>>
           THEN << Call("file_ops.delete_file", <<first>>),
                   SpeakResult("Successfully deleted file", "Failed to delete file") >>
           ELSE << Speak("No filename specified for deletion") >>
    [] branch = "edit_file" ->
         IF L >= 3
           THEN << Call("file_ops.edit_file", <<params[1], params[2], params[3]>>),
                   SpeakResult("Successfully edited file", "Failed to edit file") >>
           ELSE << Speak("Insufficient parameters for editing a file") >>
    [] branch = "append_to_file" ->
         IF L >= 2
           THEN << Call("file_ops.append_to_file", <<params[1], params[2], flag>>),
                   SpeakResult("Successfully appended to file", "Failed to append to file") >>
           ELSE << Speak("Insufficient parameters for appending to a file") >>
    [] branch = "create_directory" ->
         IF first # <<>>
           THEN << Call("file_ops.create_directory", <<first>>),
                   SpeakResult("Successfully created directory", "Failed to create directory") >>
           ELSE << Speak("No directory name specified for creation") >>
    [] branch = "move_file" ->
         IF L >= 2
           THEN << Call("file_ops.move_file", <<params[1], params[2]>>),
                   SpeakResult("Successfully moved file", "Failed to move file") >>
           ELSE << Speak("Insufficient parameters for moving a file") >>
    [] branch = "copy_file" ->
         IF L >= 2
           THEN << Call("file_ops.copy_file", <<params[1], params[2]>>),
                   SpeakResult("Successfully copied file", "Failed to copy file") >>
           ELSE << Speak("Insufficient parameters for copying a file") >>
    [] branch = "search_files" ->
         IF L > 0
           THEN << Call("file_ops.search_files", <<first, IF L > 1 THEN params[2] ELSE <<>> >>),
                   SpeakResult("Found files containing", "No files containing") >>
           ELSE <<>>
    [] branch = "get_time" -> << Speak("HH:MM") >>
    [] branch = "dictate" ->
         << [CallRaising("keyboard.write", <<handle_dictate(tail(Len(s_dictate)))>>)
               EXCEPT !.results = {"ok"}] >>
    [] branch = "write_code" ->
         IF tail(Len(s_write_code)) # <<>>
           THEN << [CallRaising("keyboard.write", <<handle_dictate(tail(Len(s_write_code)))>>)
                     EXCEPT !.results = {"ok"}] >>
           ELSE <<>>
    [] OTHER -> << Step("unknown", "unknown", <<>>) >>

\* ----------------------------------------------------------------- display
\* remove_timer that forgets the del
remove_timer_kept(tm, name) == tm

\* display.py 61-70
remove_timer(tm, name) ==
  IF name \in DOMAIN tm THEN [n \in DOMAIN tm \ {name} |-> tm[n]] ELSE tm

\* display.py 38-43; end is datetime.now() + duration
add_timer(tm, name, end) ==
  LET t1 == IF name \in DOMAIN tm THEN remove_timer(tm, name) ELSE tm IN
    [n \in DOMAIN t1 \cup {name} |-> IF n = name THEN end ELSE t1[n]]

RECURSIVE RemoveEach(_, _)
RemoveEach(tm, names) ==
  IF names = {} THEN tm
  ELSE LET tname == CHOOSE x \in names : TRUE IN
         RemoveEach(remove_timer(tm, tname), names \ {tname})

\* stop_timer that removes one timer only
stop_timer_first(tm) ==
  IF DOMAIN tm = {} THEN tm ELSE remove_timer(tm, CHOOSE x \in DOMAIN tm : TRUE)

\* main.py 512-517: remove every key display.timers has when the call starts
stop_timer(tm) == RemoveEach(tm, DOMAIN tm)

\* timer_name that ignores the counter
timer_name_fixed(counter) == <<"timer_", 0>>

\* main.py 498
timer_name(counter) == <<"timer_", counter>>
NoName == <<>>

\* ------------------------------------------------------------ file system
\* A path of the file system is the tuple of its names from the root (on
\* Windows the first name is the drive); a filename argument is a text.
n_drive == <<"C",":">>
n_m == <<"m">>
n_artifacts == <<"a","r","t","i","f","a","c","t","s">>
n_artifacts2 == n_artifacts \o <<"2">>
n_secret == <<"s","e","c","r","e","t">>
n_new == <<"n","e","w">>
n_dot == <<".">>
n_dotdot == <<".",".">>

\* the builds of os.path: posixpath and ntpath
Platforms == {"posix", "nt"}

\* the directory of file_operations.py: base_dir of file_operations.py 27-28
BaseDir(os) == IF os = "nt" THEN <<n_drive, n_m>> ELSE <<n_m>>

\* file_operations.py 31: self.artifacts_dir
ArtifactsDir(os) == BaseDir(os) \o <<n_artifacts>>

\* sep.join(names)
RECURSIVE JoinSep(_, _)
JoinSep(names, c) ==
  IF names = <<>> THEN <<>>
  ELSE IF Len(names) = 1 THEN names[1]
  ELSE names[1] \o <<c>> \o JoinSep(Tail(names), c)

\* the text of an absolute path, as os.path.abspath returns it
AbsText(p) == <<"/">> \o JoinSep(p, "/")

\* filename.lstrip('/\\')
RECURSIVE lstrip_seps(_)
lstrip_seps(s) ==
  IF s # <<>> /\ Head(s) \in {"/", "\\"} THEN lstrip_seps(Tail(s)) ELSE s

\* the names of a normalised path: empty names and '.' dropped, 'x/..'
\* folded, '..' above the root of a rooted path dropped
RECURSIVE NormNames(_, _, _)
NormNames(rest, acc, rooted) ==
  IF rest = <<>> THEN acc
  ELSE LET h == Head(rest) IN
    IF h = <<>> \/ h = n_dot THEN NormNames(Tail(rest), acc, rooted)
    ELSE IF h = n_dotdot
      THEN IF acc # <<>> /\ acc[Len(acc)] # n_dotdot
             THEN NormNames(Tail(rest), SubSeq(acc, 1, Len(acc) - 1), rooted)
           ELSE IF rooted THEN NormNames(Tail(rest), acc, rooted)
           ELSE NormNames(Tail(rest), Append(acc, h), rooted)
    ELSE NormNames(Tail(rest), Append(acc, h), rooted)

\* os.path.normpath: drive (ntpath only), rooted or not, names
normpath(os, s) ==
  LET has_drive == os = "nt" /\ Len(s) >= 2 /\ s[2] = ":"
      drive == IF has_drive THEN SubSeq(s, 1, 2) ELSE <<>>
      rest0 == IF has_drive THEN SubSeq(s, 3, Len(s)) ELSE s
      rest == IF os = "nt" THEN replace(rest0, "\\", "/") ELSE rest0
      rooted == rest # <<>> /\ rest[1] = "/"
  IN [drive |-> drive, rooted |-> rooted, names |-> NormNames(split_on(rest, "/"), <<>>, rooted)]

\* '..' in text
HasDotDot(t) == \E i \in 1..(Len(t) - 1) : t[i] = "." /\ t[i+1] = "."

\* file_operations.py 42-70, FileOperations._validate_path: ok is FALSE for
\* ValueError; path is os.path.join(artifacts_dir, clean_filename), dot says
\* that it is written 'artifacts/.'
validate_path(os, filename) ==
  LET clean == normpath(os, lstrip_seps(filename))
      traversal == \/ \E i \in 1..Len(clean.names) : HasDotDot(clean.names[i])
                   \/ (clean.drive = <<>> /\ clean.rooted)
      art == ArtifactsDir(os)
      \* ntpath.join: a rooted second path, or one of another drive, replaces the first
      full == IF clean.drive # <<>> /\ (clean.rooted \/ lower(clean.drive) # lower(n_drive))
                THEN <<clean.drive>> \o clean.names
                ELSE art \o clean.names
      within == startswith(AbsText(full), AbsText(art))
  IN [ok |-> ~traversal /\ within, path |-> full, dot |-> clean.names = <<>>]

\* the filename arguments tried
FileArgs ==
  { <<"f">>,
    <<"d">>,
    <<"d","/","g">>,
    <<"n","e","w","/","x">>,
    <<>>,
    <<".",".","/","s","e","c","r","e","t">>,
    <<"d","/",".",".","/","f">>,
    <<"C",":","/","m","/","a","r","t","i","f","a","c","t","s","2","/","x">> }

\* _validate_path for each of them, computed once
Validated == [os \in Platforms |-> [a \in FileArgs |-> validate_path(os, a)]]

\* ---- the tree: files maps the path of a file to its content, dirs is the
\* set of the directories
Prefixes(p) == {SubSeq(p, 1, k) : k \in 1..Len(p)}
IsAncestor(p, q) == Len(p) <= Len(q) /\ SubSeq(q, 1, Len(p)) = p

exists(fs, p) == p \in DOMAIN fs.files \/ p \in fs.dirs

\* os.path.dirname of a validated path
dirname(v) == IF v.dot THEN v.path ELSE SubSeq(v.path, 1, Len(v.path) - 1)

\* the None that read_file returns
NoContent == <<"None">>

\* what a call gives back: the tree, the value returned, the paths opened,
\* created, removed or listed, and whether an exception left the call
Outcome(fs, result, touched) ==
  [files |-> fs.files, dirs |-> fs.dirs, result |-> result, touched |-> touched,
   raised |-> FALSE]

\* os.makedirs(p, exist_ok=True): ok is FALSE for FileExistsError and
\* NotADirectoryError (a file stands at p or above it)
makedirs(fs, p) ==
  IF p \in fs.dirs THEN [ok |-> TRUE, fs |-> fs, made |-> {}]
  ELSE IF \E q \in Prefixes(p) : q \in DOMAIN fs.files THEN [ok |-> FALSE, fs |-> fs, made |-> {}]
  ELSE [ok |-> TRUE, fs |-> [fs EXCEPT !.dirs = @ \cup Prefixes(p)],
        made |-> Prefixes(p) \ fs.dirs]

\* open(p, 'w') or open(p, 'a') followed by write(content) below an existing
\* directory: FALSE for IsADirectoryError
put(fs, p, content, made) ==
  IF p \in fs.dirs THEN Outcome(fs, FALSE, made)
  ELSE Outcome([fs EXCEPT !.files = [q \in DOMAIN @ \cup {p} |-> IF q = p THEN content ELSE @[q]]],
               TRUE, made \cup {p})

\* file_operations.py 102-124
read_file(os, fs, filename) ==
  LET v == Validated[os][filename] IN
    IF ~v.ok \/ v.path \notin DOMAIN fs.files THEN Outcome(fs, NoContent, {})
    ELSE Outcome(fs, fs.files[v.path], {v.path})

\* file_operations.py 126-155
write_file(os, fs, filename, content, overwrite) ==
  LET v == Validated[os][filename]
      md == makedirs(fs, dirname(v))
  IN IF ~v.ok \/ ~md.ok THEN Outcome(fs, FALSE, {})
     ELSE IF exists(md.fs, v.path) /\ ~overwrite THEN Outcome(md.fs, FALSE, md.made)
     ELSE put(md.fs, v.path, content, md.made)

\* file_operations.py 157-187
append_to_file(os, fs, filename, content, create_if_missing) ==
  LET v == Validated[os][filename]
      md == makedirs(fs, dirname(v))
  IN IF ~v.ok THEN Outcome(fs, FALSE, {})
     ELSE IF exists(fs, v.path)
       THEN put(fs, v.path, (IF v.path \in DOMAIN fs.files THEN fs.files[v.path] ELSE <<>>) \o content, {})
     ELSE IF ~create_if_missing \/ ~md.ok THEN Outcome(fs, FALSE, {})
     ELSE put(md.fs, v.path, content, md.made)

\* file_operations.py 189-214; find_text and replace_text are one character
edit_file(os, fs, filename, find_text, replace_text) ==
  LET rd == read_file(os, fs, filename)
      new_content == replace(rd.result, find_text, replace_text)
  IN IF rd.result = NoContent THEN Outcome(fs, FALSE, {})
     ELSE IF rd.result = new_content THEN Outcome(fs, TRUE, rd.touched)
     ELSE write_file(os, fs, filename, new_content, TRUE)

\* file_operations.py 216-237: os.remove of a directory raises
delete_file(os, fs, filename) ==
  LET v == Validated[os][filename] IN
    IF ~v.ok \/ v.path \notin DOMAIN fs.files THEN Outcome(fs, FALSE, {})
    ELSE Outcome([fs EXCEPT !.files = [q \in DOMAIN @ \ {v.path} |-> @[q]]], TRUE, {v.path})

\* file_operations.py 239-256
create_directory(os, fs, directory) ==
  LET v == Validated[os][directory]
      md == makedirs(fs, v.path)
  IN IF ~v.ok \/ ~md.ok THEN Outcome(fs, FALSE, {}) ELSE Outcome(md.fs, TRUE, md.made)

\* the path shutil.copy2 and shutil.move write: below dst when dst is a directory
real_dst(fs, vs, vd) ==
  IF vd.path \in fs.dirs THEN Append(vd.path, vs.path[Len(vs.path)]) ELSE vd.path

\* file_operations.py 258-285: shutil.copy2 raises for a source that is a
\* directory, for source and destination being one file, and for a
\* destination that is a directory
copy_file(os, fs, source, destination) ==
  LET vs == Validated[os][source]
      vd == Validated[os][destination]
      md == makedirs(fs, dirname(vd))
      dst == real_dst(md.fs, vs, vd)
  IN IF ~vs.ok \/ ~vd.ok \/ ~exists(fs, vs.path) \/ ~md.ok THEN Outcome(fs, FALSE, {})
     ELSE IF vs.path \in fs.dirs \/ dst = vs.path THEN Outcome(md.fs, FALSE, md.made)
     ELSE put(md.fs, dst, fs.files[vs.path], md.made \cup {vs.path})

\* os.rename(src, dst) of a file or of a directory with all it holds
rename(fs, src, dst) ==
  LET to(q) == IF IsAncestor(src, q) THEN dst \o SubSeq(q, Len(src) + 1, Len(q)) ELSE q
      kept == {q \in DOMAIN fs.files : q # dst}
  IN [files |-> [r \in {to(q) : q \in kept} |-> fs.files[CHOOSE q \in kept : to(q) = r]],
      dirs |-> {to(q) : q \in fs.dirs}]

\* file_operations.py 287-314: shutil.move raises when the destination is a
\* directory that holds the name of the source already, when a directory is
\* moved into itself or onto a file
move_file(os, fs, source, destination) ==
  LET vs == Validated[os][source]
      vd == Validated[os][destination]
      md == makedirs(fs, dirname(vd))
      into == vd.path \in md.fs.dirs
      dst == real_dst(md.fs, vs, vd)
      is_dir == vs.path \in fs.dirs
  IN IF ~vs.ok \/ ~vd.ok \/ ~exists(fs, vs.path) \/ ~md.ok THEN Outcome(fs, FALSE, {})
     \* a directory onto itself: os.rename(src, src), which fails for 'artifacts/.'
     ELSE IF into /\ vd.path = vs.path THEN Outcome(md.fs, ~vs.dot, md.made)
     ELSE IF \/ into /\ (vs.dot \/ exists(md.fs, dst))
             \/ is_dir /\ (IsAncestor(vs.path, dst) \/ exists(md.fs, dst))
       THEN Outcome(md.fs, FALSE, md.made)
     ELSE IF dst = vs.path THEN Outcome(md.fs, TRUE, md.made)
     ELSE Outcome(rename(md.fs, vs.path, dst), TRUE, md.made \cup {vs.path, dst})

\* file_operations.py 72-100: the files that stand in the directory; the
\* ValueError of _validate_path is not caught here
list_files(os, fs, subdirectory) ==
  LET v == Validated[os][subdirectory]
      dir_path == IF subdirectory = <<>> THEN ArtifactsDir(os) ELSE v.path
  IN IF subdirectory # <<>> /\ ~v.ok THEN [Outcome(fs, {}, {}) EXCEPT !.raised = TRUE]
     ELSE IF dir_path \notin fs.dirs THEN Outcome(fs, {}, {})
     ELSE Outcome(fs, {q \in DOMAIN fs.files : SubSeq(q, 1, Len(q) - 1) = dir_path}, {dir_path})

\* ------------------------------------------------------------------- state
VARIABLES
  pc,             \* where async_main is: listen, loop, await, finally, stopped, exited
  action_tags,    \* the directives of the current reply, in extraction order
  idx,            \* position of the for loop in action_tags
  todo,           \* steps of the current handler that are still to run
  awaiting,       \* the step the turn loop is suspended in
  result,         \* truth value of the last collaborator result
  timers,         \* display.timers: name -> end time
  timer_counter,  \* the global of main.py 44-46
  tasks,          \* the set_timer tasks created with asyncio.create_task
  now,            \* the clock, in seconds
  trace,          \* what the program has done so far, in order
  platform,       \* the build of os.path the program runs with
  files,          \* the files of the file system: path -> content
  dirs,           \* the directories of the file system
  fs_call,        \* the last call of a FileOperations method and its outcome
  fs_calls,       \* the number of FileOperations calls made
  history_file,   \* conversation_history.json: whether it exists, the turns it holds
  turns_given,    \* every turn the file held at first or update_history was given, in order
  updates,        \* the number of update_history calls made
  tts,            \* the call of speak_text under way: its arguments, attempts, position
  assistant_loop, \* the global of main.py 520: 0 for None, else the number of a loop
  assistant_task, \* the global of main.py 521: 0 for None, else the number of a task
  loops,          \* the event loops made so far, each with the state of its task
  calls,          \* the calls of start_assistant and stop_assistant made so far
  trays,          \* the number of tray threads started
  clicks          \* the number of tray menu items clicked

mainvars == <<pc, action_tags, idx, todo, awaiting, result, timers, timer_counter, tasks, now, trace>>
filevars == <<platform, files, dirs, fs_call, fs_calls>>
historyvars == <<history_file, turns_given, updates>>
trayvars == <<assistant_loop, assistant_task, loops, calls, trays, clicks>>
env == <<filevars, historyvars, tts, trayvars>>
vars == <<mainvars, env>>

Ev(who, k, ev, tag, arg) == [who |-> who, k |-> k, ev |-> ev, tag |-> tag, arg |-> arg]

NoStep == Step("none", "", <<>>)

IsDispatchEv(e) == e.ev = "dispatch"
\* number of directives whose handler has started; the serial number of the
\* directive being handled
NumDispatched == Len(SelectSeq(trace, IsDispatchEv))

\* the turn loop is suspended in an await, so the event loop runs other tasks
MainSuspended == pc \in {"listen", "await", "finally"}

\* a task created and not yet started; the event loop starts it before it
\* resumes a coroutine that suspended later
ReadyTasks == {t \in 1..Len(tasks) : tasks[t].pc = "ready"}

NewTask(k, duration) ==
  [k |-> k, duration |-> duration, pc |-> "ready", name |-> NoName,
   seconds |-> 0, slept_from |-> 0, wake |-> 0]

\* what the first step of steps may do: the result of a call, a raise, or
\* a suspension
Outcomes(steps) ==
  IF steps = <<>> THEN {"ok"}
  ELSE LET s == Head(steps) IN
    IF s.op = "call" THEN s.results \cup (IF s.raises THEN {"raise"} ELSE {})
    ELSE IF s.op = "acall"
      \* MerossController.turn_on_light returns at once when it has no devices
      THEN {"suspend"} \cup
           (IF s.tag \in {"meross.turn_on_light", "meross.turn_off_light"} THEN {"ok"} ELSE {})
    ELSE {"ok"}

\* Runs the steps of directive k from a point where the turn loop is running
\* up to its next suspension, its end, an escaping exception or the exit of
\* the process.  o is the outcome of the first step.
RECURSIVE Seg(_, _, _, _)
Seg(steps, st, o, k) ==
  IF steps = <<>>
    THEN [st EXCEPT !.pc = "next", !.todo = <<>>,
                    !.trace = Append(@, Ev("main", k, "done", "", <<>>))]
  ELSE
    LET s == Head(steps)
        r == Tail(steps)
        called == Append(st.trace, Ev("main", k, "call", s.tag, s.arg))
    IN
    CASE s.op = "speak" ->
           [st EXCEPT !.pc = "await", !.awaiting = s, !.todo = r,
                      !.trace = Append(@, Ev("main", k, "speak",
                                  IF st.result = "ok" THEN s.ok_msg ELSE s.fail_msg, <<>>))]
      [] s.op \in {"call", "acall"} /\ o = "raise" ->
           [st EXCEPT !.pc = "finally", !.todo = <<>>,
                      !.trace = Append(called, Ev("main", k, "raise", s.tag, <<>>))]
      [] s.op = "acall" /\ o = "suspend" ->
           [st EXCEPT !.pc = "await", !.awaiting = s, !.todo = r, !.trace = called]
      [] s.op \in {"call", "acall"} /\ o \notin {"raise", "suspend"} ->
           Seg(r, [st EXCEPT !.result = o,
                             !.trace = Append(called, Ev("main", k, "return", s.tag, <<o>>))],
               o, k)
      [] s.op = "create_task" ->
           Seg(r, [st EXCEPT !.tasks = Append(@, NewTask(k, s.arg[1])),
                             !.trace = Append(@, Ev("main", k, "create_task", s.tag, s.arg))],
               o, k)
      [] s.op = "stop_timer" ->
           Seg(r, [st EXCEPT !.timers = stop_timer(@),
                             !.trace = Append(@, Ev("main", k, "stop_timer", s.tag, <<DOMAIN st.timers>>))],
               o, k)
      [] s.op = "unknown" ->
           Seg(r, [st EXCEPT !.trace = Append(@, Ev("main", k, "unknown", s.tag, <<>>))], o, k)
      [] OTHER ->
           [st EXCEPT !.pc = "exited", !.todo = <<>>,
                      !.trace = Append(@, Ev("main", k, "exit", s.tag, <<>>))]

MainState ==
  [pc |-> pc, todo |-> todo, awaiting |-> awaiting, result |-> result,
   timers |-> timers, tasks |-> tasks, trace |-> trace]

\* Become with a suspended handler taken for a finished one, as if its await
\* were a create_task
Become_unawaited(st) ==
  /\ pc' = IF st.pc \in {"next", "await"}
             THEN (IF idx < Len(action_tags) THEN "loop" ELSE "listen")
             ELSE st.pc
  /\ idx' = IF st.pc \in {"next", "await"} THEN idx + 1 ELSE idx
  /\ todo' = <<>>
  /\ awaiting' = NoStep
  /\ result' = st.result
  /\ timers' = st.timers
  /\ tasks' = st.tasks
  /\ trace' = st.trace
  /\ UNCHANGED <<action_tags, timer_counter, now>>
  /\ UNCHANGED env

\* the turn loop takes the state st; "next" is the end of a handler
Become(st) ==
  /\ pc' = IF st.pc = "next"
             THEN (IF idx < Len(action_tags) THEN "loop" ELSE "listen")
             ELSE st.pc
  /\ idx' = IF st.pc = "next" THEN idx + 1 ELSE idx
  /\ todo' = st.todo
  /\ awaiting' = IF st.pc = "await" THEN st.awaiting ELSE NoStep
  /\ result' = st.result
  /\ timers' = st.timers
  /\ tasks' = st.tasks
  /\ trace' = st.trace
  /\ UNCHANGED <<action_tags, timer_counter, now>>
  /\ UNCHANGED env

\* ------------------------------------------------- FileOperations calls
\* largest number of FileOperations calls made in a row
MaxFileCalls == 2

\* the artifacts tree a session starts with: artifacts/f, artifacts/d/g, and
\* a file next to the artifacts directory
InitialFiles(os) ==
  LET art == ArtifactsDir(os) IN
    (Append(art, <<"f">>) :> <<"x">>) @@ (art \o << <<"d">>, <<"g">> >> :> <<"y">>)
      @@ (Append(BaseDir(os), n_secret) :> <<"s">>)

InitialDirs(os) == Prefixes(ArtifactsDir(os)) \cup {Append(ArtifactsDir(os), <<"d">>)}

NoFileCall == [op |-> "none", args |-> <<>>, result |-> FALSE, touched |-> {}, raised |-> FALSE,
               before |-> [files |-> InitialFiles("nt"), dirs |-> InitialDirs("nt")]]

\* no FileOperations call has been made: main.py 59 has built the object
FilesIdle ==
  /\ platform = "nt"
  /\ files = InitialFiles("nt")
  /\ dirs = InitialDirs("nt")
  /\ fs_call = NoFileCall
  /\ fs_calls = 0

\* conversation_history.py 13-15: no history file yet
NoHistoryFile == [exists |-> FALSE, turns |-> <<>>]

HistoryIdle ==
  /\ history_file = NoHistoryFile
  /\ turns_given = <<>>
  /\ updates = 0

\* tts.py 15-16
default_voice == "en-GB-RyanNeural"
fallback_voice == "en-US-ChristopherNeural"

\* no call of speak_text is under way
NoSpeech ==
  [pc |-> "idle", voice |-> default_voice, max_retries |-> 0, attempt |-> 0,
   voices |-> <<>>, outcomes |-> <<>>, success |-> FALSE, played |-> FALSE]

\* main.py 520-521 and no thread started: the module has just been loaded
TrayIdle ==
  /\ assistant_loop = 0
  /\ assistant_task = 0
  /\ loops = <<>>
  /\ calls = <<>>
  /\ trays = 0
  /\ clicks = 0

EnvIdle == FilesIdle /\ HistoryIdle /\ tts = NoSpeech /\ TrayIdle

Contents == { <<"x">>, <<"z">> }

Tree == [files |-> files, dirs |-> dirs]

\* the call op(args) is made and has the outcome o
FileCall(op, args, o) ==
  /\ fs_calls < MaxFileCalls
  /\ fs_calls' = fs_calls + 1
  /\ files' = o.files
  /\ dirs' = o.dirs
  /\ fs_call' = [op |-> op, args |-> args, result |-> o.result, touched |-> o.touched,
                 raised |-> o.raised, before |-> Tree]
  /\ UNCHANGED <<platform, mainvars, historyvars, tts, trayvars>>

ReadFile ==
  \E a \in FileArgs : FileCall("read_file", <<a>>, read_file(platform, Tree, a))

WriteFile ==
  \E a \in FileArgs, c \in Contents, overwrite \in BOOLEAN :
    FileCall("write_file", <<a, c, overwrite>>, write_file(platform, Tree, a, c, overwrite))

AppendToFile ==
  \E a \in FileArgs, c \in Contents, create_if_missing \in BOOLEAN :
    FileCall("append_to_file", <<a, c, create_if_missing>>,
             append_to_file(platform, Tree, a, c, create_if_missing))

EditFile ==
  \E a \in FileArgs, find_text \in {"x", "y"} :
    FileCall("edit_file", <<a, find_text, "z">>, edit_file(platform, Tree, a, find_text, "z"))

DeleteFile ==
  \E a \in FileArgs : FileCall("delete_file", <<a>>, delete_file(platform, Tree, a))

CreateDirectory ==
  \E a \in FileArgs : FileCall("create_directory", <<a>>, create_directory(platform, Tree, a))

CopyFile ==
  \E a \in FileArgs, b \in FileArgs :
    FileCall("copy_file", <<a, b>>, copy_file(platform, Tree, a, b))

MoveFile ==
  \E a \in FileArgs, b \in FileArgs :
    FileCall("move_file", <<a, b>>, move_file(platform, Tree, a, b))

ListFiles ==
  \E a \in FileArgs : FileCall("list_files", <<a>>, list_files(platform, Tree, a))

\* ------------------------------------------------------------------ inputs
\* the directives the language model puts into its replies
d_light == s_turn_on_light
d_levitate == <<"l","e","v","i","t","a","t","e">>
d_empty == <<>>
d_mkdir == s_create_directory \o <<":","f","o","o">>
d_write == s_write_file \o <<":","f","o","o","/","b",",","h","i">>
d_timer_5m == s_set_timer \o <<":","5","_","m","i","n","u","t","e","s">>
d_timer_2 == <<"S","e","t"," ","T","i","m","e","r",":","2">>
d_stop == s_stop_timer
d_shut_down == s_shut_down

Directives ==
  {d_light, d_levitate, d_empty, d_mkdir, d_write, d_timer_2, d_stop, d_shut_down}

\* the directives that set and stop timers or end the turn loop
TimerMenu == {d_timer_2, d_stop, d_shut_down, d_light}

\* the replies of at most n directives drawn from menu
Replies(menu, n) == UNION {[1..m -> menu] : m \in 1..n}

NoTimers == [n \in {} |-> 0]

\* the integers written in a duration
Values == ((0 - MaxValue)..MaxValue) \cup {5, 12}

JunkUnits == {<<"x">>, <<"m","s">>, <<"p","a","r","s","e","c","s">>}

ExtraTexts ==
  { <<"5","m","!">>, <<"s","o","o","n">>, <<"5","_","m","_","x">>, <<"m","5">>,
    <<"5",".","5","_","m">>, <<"1","2","!">>, <<"5","_","M","i","n","u","t","e","s">> }

\* the duration texts of the set_timer directives tried
DurationTexts ==
  {str(n) \o <<"_">> \o u : n \in Values, u \in UnitTokens \cup JunkUnits}
    \cup {str(n) \o u : n \in Values, u \in UnitTokens \cup JunkUnits}
    \cup {str(n) : n \in Values}
    \cup ExtraTexts

\* ---- directives with parameters, dispatched one at a time
s_false == <<"F","a","l","s","e">>
s_yes == <<"y","e","s">>

\* the parameter texts tried in the positions of a file directive
FlagTokens == {<<"a">>, <<>>, s_true, s_false, s_yes}

\* the parameter lists of at most n parameters
ParamLists(n) == UNION {[1..m -> FlagTokens] : m \in 0..n}

\* ','.join(ps)
RECURSIVE Join(_)
Join(ps) ==
  IF ps = <<>> THEN <<>>
  ELSE IF Len(ps) = 1 THEN ps[1]
  ELSE ps[1] \o <<",">> \o Join(Tail(ps))

\* the directive text of an action name and its parameters
Directive(name, ps) == IF ps = <<>> THEN name ELSE name \o <<":">> \o Join(ps)

\* the actions that need two or three parameters
FileNames == {s_write_file, s_append_to_file, s_copy_file, s_move_file, s_edit_file}

FileDirectives == {Directive(n, ps) : n \in FileNames, ps \in ParamLists(MaxParams)}

\* the actions that need one parameter
SingleNames ==
  {s_play_song, s_play_playlist, s_read_file, s_delete_file, s_create_directory,
   s_browse_internet, s_search_files}

SingleDirectives ==
  {Directive(n, ps) : n \in SingleNames, ps \in {<<>>, << <<>> >>, << <<"a">> >>, << <<"a">>, <<"b">> >>}}

VolumeTokens ==
  { <<"2","0">>, <<"a","b","c">>, <<"0","0","7">>, <<"-","5">>, <<"1",".","5">>,
    <<>>, <<sup2>>, <<"2",sup2>> }

VolumeDirectives ==
  {Directive(n, ps) : n \in {s_volume_up, s_volume_down},
                      ps \in {<<>>} \cup {<<t>> : t \in VolumeTokens}}

\* dictation: the token as the model may write it, a separator, a body
TailTokens ==
  {s_dictate, <<"D","i","c","t","a","t","e">>, s_write_code,
   <<"W","r","i","t","e"," ","C","o","d","e">>}
TailSeps == {<<>>, <<":">>, <<":"," ">>, <<" ">>, <<" ",":"," ">>}
TailBodies ==
  { <<>>, <<"H","i",","," ","B","o","b",":"," ","o","k">>, <<":",")">>,
    <<"a","_","b"," ","C">>, <<"x",",","y"," ">> }

TailDirectives == {t \o p \o b : t \in TailTokens, p \in TailSeps, b \in TailBodies}

\* the actions that take no parameter, written with and without parameters
ZeroNames ==
  {s_turn_on_light, s_turn_off_light, s_pause_music, s_unpause_music, s_stop_music,
   s_stop_timer, s_get_time}

ZeroDirectives ==
  {Directive(n, ps) : n \in ZeroNames,
                      ps \in {<<>>, << <<"a">> >>, << <<"2","0">>, <<"b">> >>}}

\* action names with a qualifier after or before them
Qualifiers ==
  { <<>>, <<"s">>, <<"_","n","o","w">>, <<" ","N","o","w">>, <<"_">> \o s_stop_timer }

QualifiedNames ==
  {s_set_timer, s_start_timer, s_stop_timer, s_stop_music, s_play_song, s_get_time,
   s_list_files, <<"S","t","o","p"," ","T","i","m","e","r">>,
   <<"l","e","v","i","t","a","t","e">>}

QualifiedDirectives ==
  {n \o q : n \in QualifiedNames, q \in Qualifiers}
    \cup {q \o n : n \in QualifiedNames, q \in Qualifiers}

\* the directives that end the process
ExitDirectives == {s_shut_down, s_reboot}

OneDirectives ==
  FileDirectives \cup SingleDirectives \cup VolumeDirectives \cup TailDirectives
    \cup ExitDirectives \cup ZeroDirectives \cup QualifiedDirectives

\* every directive a reply of the model may hold
KnownDirectives ==
  Directives \cup TimerMenu \cup {d_timer_5m} \cup OneDirectives \cup {s_set_timer \o <<":">> \o d : d \in DurationTexts}

\* main.py 122-411 for each of them: the action name parsed, the branch
\* taken and its steps
Handler ==
  [a \in KnownDirectives |->
     LET p == ParseDirective(a)
         b == Branch(p.action_name)
     IN [action_name |-> p.action_name, branch |-> b, steps |-> Plan(b, p.params, a)]]

\* the durations the set_timer directives hand to set_timer
KnownDurations ==
  {Handler[a].steps[1].arg[1] :
     a \in {x \in KnownDirectives :
              Handler[x].steps # <<>> /\ Handler[x].steps[1].op = "create_task"}}

\* main.py 428-492 for each of them
Parsed == [d \in KnownDurations |-> ParseDuration(d)]

\* ----------------------------------------------------------------- actions
Init ==
  /\ EnvIdle
  /\ pc = "listen"
  /\ action_tags = <<>>
  /\ idx = 1
  /\ todo = <<>>
  /\ awaiting = NoStep
  /\ result = "ok"
  /\ timers = NoTimers
  /\ timer_counter = 0
  /\ tasks = <<>>
  /\ now = 0
  /\ trace = <<>>

\* main.py 65-120: an utterance with a wake word arrives, the model replies,
\* the text is spoken and the directives are extracted
GetReply(menu) ==
  /\ pc = "listen"
  /\ ReadyTasks = {}
  /\ NumDispatched < MaxDirectives
  /\ \E tags \in Replies(menu, MaxDirectives - NumDispatched) :
       /\ action_tags' = tags
       /\ idx' = 1
       /\ pc' = "loop"
       /\ trace' = Append(trace, Ev("main", NumDispatched, "reply", "", tags))
  /\ UNCHANGED <<todo, awaiting, result, timers, timer_counter, tasks, now>>
  /\ UNCHANGED env

\* main.py 121-411: one iteration of the for loop, up to the first await
\* that suspends the turn loop
Dispatch ==
  /\ pc = "loop"
  /\ LET action == action_tags[idx]
         h == Handler[action]
         k == NumDispatched + 1
         st == [MainState EXCEPT !.result = "ok",
                   !.trace = Append(@, Ev("main", k, "dispatch", h.branch, action))]
     IN \E o \in Outcomes(h.steps) : Become(Seg(h.steps, st, o, k))

\* the awaited call returns (or raises) and the handler goes on
Resume ==
  /\ pc = "await"
  /\ ReadyTasks = {}
  /\ LET k == NumDispatched IN
     IF awaiting.op = "speak"
       THEN \E o \in Outcomes(todo) : Become(Seg(todo, MainState, o, k))
       ELSE \E res \in awaiting.results \cup (IF awaiting.raises THEN {"raise"} ELSE {}) :
              IF res = "raise" /\ ~awaiting.caught
                THEN Become([MainState EXCEPT !.pc = "finally", !.todo = <<>>,
                               !.trace = Append(@, Ev("main", k, "raise", awaiting.tag, <<>>))])
                ELSE LET r == IF res = "raise" THEN "fail" ELSE res
                         st == [MainState EXCEPT !.result = r,
                                  !.trace = Append(@, Ev("main", k, "return", awaiting.tag, <<r>>))]
                     IN \E o \in Outcomes(todo) : Become(Seg(todo, st, o, k))

\* main.py 416-420 and 537-538: an exception left the while loop; the
\* finally clause logs the controller out and the event loop stops
LoopEnd ==
  /\ pc = "finally"
  /\ ReadyTasks = {}
  /\ pc' = "stopped"
  /\ trace' = Append(trace, Ev("main", NumDispatched, "call", "meross.shutdown", <<>>))
  /\ UNCHANGED <<action_tags, idx, todo, awaiting, result, timers, timer_counter, tasks, now>>
  /\ UNCHANGED env

\* main.py 422-501: a set_timer task runs from its start to its first await
TaskStart(t) ==
  /\ MainSuspended
  /\ t \in ReadyTasks
  /\ \A u \in ReadyTasks : t <= u
  /\ LET d == Parsed[tasks[t].duration]
         k == tasks[t].k
         name == timer_name(timer_counter)
     IN IF d.ok
          THEN /\ timer_counter' = timer_counter + 1
               /\ timers' = add_timer(timers, name, now + d.seconds)
               /\ tasks' = [tasks EXCEPT ![t] = [@ EXCEPT !.pc = "sleeping", !.name = name,
                                                  !.seconds = d.seconds, !.slept_from = now,
                                                  !.wake = now + d.seconds]]
               /\ trace' = trace \o << Ev("timer", k, "add_timer", "display", <<name>>),
                                       Ev("timer", k, "sleep", "asyncio", <<d.seconds>>) >>
          ELSE /\ tasks' = [tasks EXCEPT ![t] = [@ EXCEPT !.pc = "done"]]
               /\ trace' = Append(trace, Ev("timer", k, "speak", d.say, <<>>))
               /\ UNCHANGED <<timer_counter, timers>>
  /\ UNCHANGED <<pc, action_tags, idx, todo, awaiting, result, now>>
  /\ UNCHANGED env

\* main.py 501-503: the sleep is over
TaskWake(t) ==
  /\ MainSuspended
  /\ t \in 1..Len(tasks)
  /\ tasks[t].pc = "sleeping"
  /\ now >= tasks[t].wake
  /\ timers' = remove_timer(timers, tasks[t].name)
  /\ tasks' = [tasks EXCEPT ![t] = [@ EXCEPT !.pc = "done"]]
  /\ trace' = trace \o << Ev("timer", tasks[t].k, "remove_timer", "display", <<tasks[t].name>>),
                          Ev("timer", tasks[t].k, "speak", "Timer complete!", <<>>) >>
  /\ UNCHANGED <<pc, action_tags, idx, todo, awaiting, result, timer_counter, now>>
  /\ UNCHANGED env

\* time passes up to the next moment a sleep ends
Advance ==
  /\ MainSuspended
  /\ \E t \in 1..Len(tasks) :
       /\ tasks[t].pc = "sleeping"
       /\ tasks[t].wake > now
       /\ \A u \in 1..Len(tasks) :
            tasks[u].pc = "sleeping" /\ tasks[u].wake > now => tasks[t].wake <= tasks[u].wake
       /\ now' = tasks[t].wake
  /\ UNCHANGED <<pc, action_tags, idx, todo, awaiting, result, timers, timer_counter, tasks, trace>>
  /\ UNCHANGED env

StartSome == \E t \in 1..Len(tasks) : TaskStart(t)
WakeSome == \E t \in 1..Len(tasks) : TaskWake(t)

Next == GetReply(Directives) \/ Dispatch \/ Resume \/ LoopEnd \/ StartSome \/ WakeSome \/ Advance

Spec == Init /\ [][Next]_vars

\* ------------------------------------------- one set_timer directive alone
\* the turn loop has just extracted a reply holding one set_timer directive
InitTimer ==
  /\ EnvIdle
  /\ pc = "loop"
  /\ \E d \in DurationTexts :
       /\ action_tags = << s_set_timer \o <<":">> \o d >>
       /\ trace = << Ev("main", 0, "reply", "", action_tags) >>
  /\ idx = 1
  /\ todo = <<>>
  /\ awaiting = NoStep
  /\ result = "ok"
  /\ timers = NoTimers
  /\ timer_counter = 0
  /\ tasks = <<>>
  /\ now = 0

NextTimer == Dispatch \/ StartSome \/ WakeSome \/ Advance

SpecTimer == InitTimer /\ [][NextTimer]_vars

\* ------------------------------------- from the completion to its directives
\* what the language model writes: markers in either case, another tag,
\* text, white space, emphasis
RawPieces ==
  { open_tag, close_tag, <<"<","A","c","t","i","o","n",">">>, <<"<","b",">">>,
    <<"x">>, <<" ">>, <<"\n">>, <<"*">> }

RECURSIVE Flatten(_)
Flatten(ps) == IF ps = <<>> THEN <<>> ELSE Head(ps) \o Flatten(Tail(ps))

ExtraCompletions ==
  { open_tag \o open_tag \o <<"a">> \o close_tag \o close_tag,
    <<"H","i"," ">> \o open_tag \o s_turn_on_light \o close_tag \o <<" ","t","h","e","r","e">>,
    open_tag \o <<"a">> \o close_tag \o <<" ","<","i",">","o","r","<","/","i",">"," ">>
      \o open_tag \o <<"b",":","c">> \o close_tag }

Completions_ == {Flatten(ps) : ps \in UNION {[1..m -> RawPieces] : m \in 0..MaxPieces}}

RawCompletions == Completions_ \cup ExtraCompletions

\* the language model has answered
InitExtract ==
  /\ EnvIdle
  /\ pc = "reply"
  /\ \E raw \in RawCompletions : trace = << Ev("llm", 0, "completion", "", raw) >>
  /\ action_tags = <<>>
  /\ idx = 1
  /\ todo = <<>>
  /\ awaiting = NoStep
  /\ result = "ok"
  /\ timers = NoTimers
  /\ timer_counter = 0
  /\ tasks = <<>>
  /\ now = 0

\* llm.py 109-114 and main.py 99-120: the completion is cleaned, the text to
\* speak is made and the directives are extracted
Extract ==
  /\ pc = "reply"
  /\ LET reply == clean_generated_text(trace[1].arg)
         spoken == text_to_speak(reply)
     IN /\ action_tags' = findall(reply)
        /\ trace' = trace \o << Ev("main", 0, "reply_text", "", reply),
                                Ev("main", 0, "text_to_speak", "", spoken) >>
  /\ pc' = "extracted"
  /\ UNCHANGED <<idx, todo, awaiting, result, timers, timer_counter, tasks, now>>
  /\ UNCHANGED env

NextExtract == Extract

SpecExtract == InitExtract /\ [][NextExtract]_vars

\* ------------------------------------------------ parsing of one directive
\* the characters a directive is written with
RawChars == {"A", "b", " ", ":", ","}

d_play_song ==
  <<"P","l","a","y","_","S","o","n","g",":","B","o","h","e","m","i","a","n"," ",
    "R","h","a","p","s","o","d","y">>

RawDirectives == UNION {[1..m -> RawChars] : m \in 0..MaxRawLen} \cup {d_play_song}

\* the turn loop has just extracted a reply holding one directive
InitParse ==
  /\ EnvIdle
  /\ pc = "loop"
  /\ \E d \in RawDirectives :
       /\ action_tags = <<d>>
       /\ trace = << Ev("main", 0, "reply", "", action_tags) >>
  /\ idx = 1
  /\ todo = <<>>
  /\ awaiting = NoStep
  /\ result = "ok"
  /\ timers = NoTimers
  /\ timer_counter = 0
  /\ tasks = <<>>
  /\ now = 0

\* main.py 121-147: the directive is normalised and parsed, and the action
\* detected is written to the conversation
Detect ==
  /\ pc = "loop"
  /\ LET p == ParseDirective(action_tags[idx]) IN
       trace' = Append(trace, Ev("main", 1, "detected", "", <<p.action_name, p.params>>))
  /\ pc' = "detected"
  /\ UNCHANGED <<action_tags, idx, todo, awaiting, result, timers, timer_counter, tasks, now>>
  /\ UNCHANGED env

NextParse == Detect

SpecParse == InitParse /\ [][NextParse]_vars

\* ------------------------------------------ one directive with parameters
\* the turn loop has just extracted a reply holding one directive
InitOne ==
  /\ EnvIdle
  /\ pc = "loop"
  /\ \E d \in OneDirectives :
       /\ action_tags = <<d>>
       /\ trace = << Ev("main", 0, "reply", "", action_tags) >>
  /\ idx = 1
  /\ todo = <<>>
  /\ awaiting = NoStep
  /\ result = "ok"
  /\ timers = NoTimers
  /\ timer_counter = 0
  /\ tasks = <<>>
  /\ now = 0

NextOne == Dispatch \/ Resume \/ LoopEnd

SpecOne == InitOne /\ [][NextOne]_vars

\* ------------------------------------------------ the FileOperations object
\* the turn loop waits for an utterance and has done nothing yet
MainIdle ==
  /\ pc = "listen"
  /\ action_tags = <<>>
  /\ idx = 1
  /\ todo = <<>>
  /\ awaiting = NoStep
  /\ result = "ok"
  /\ timers = NoTimers
  /\ timer_counter = 0
  /\ tasks = <<>>
  /\ now = 0
  /\ trace = <<>>

\* FileOperations has been built on either platform; the turn loop is idle
InitFiles ==
  /\ platform \in Platforms
  /\ files = InitialFiles(platform)
  /\ dirs = InitialDirs(platform)
  /\ fs_call = [NoFileCall EXCEPT !.before = [files |-> InitialFiles(platform),
                                              dirs |-> InitialDirs(platform)]]
  /\ fs_calls = 0
  /\ MainIdle
  /\ HistoryIdle
  /\ tts = NoSpeech
  /\ TrayIdle

NextFiles ==
  ReadFile \/ WriteFile \/ AppendToFile \/ EditFile \/ DeleteFile \/ CreateDirectory
    \/ CopyFile \/ MoveFile \/ ListFiles

SpecFiles == InitFiles /\ [][NextFiles]_vars

\* ---------------------------------------------------- conversation history
\* conversation_history.py 10
MAX_TURNS == 50
\* largest number of update_history calls made in a row
MaxUpdates == 3

\* conversation_history.py 12-23
load_history(file) == IF file.exists THEN file.turns ELSE <<>>

\* update_history that keeps the first MAX_TURNS turns
update_history_oldest(file, turn) ==
  LET history == Append(load_history(file), turn) IN
    [exists |-> TRUE,
     turns |-> IF Len(history) > MAX_TURNS THEN SubSeq(history, 1, MAX_TURNS) ELSE history]

\* conversation_history.py 33-41: the file that save_history writes
update_history(file, turn) ==
  LET history == Append(load_history(file), turn) IN
    [exists |-> TRUE,
     turns |-> IF Len(history) > MAX_TURNS
                 THEN SubSeq(history, Len(history) - MAX_TURNS + 1, Len(history))
                 ELSE history]

\* a turn: user is the serial number of the text, assistant the reply or ""
Turn(n, reply) == [user |-> n, assistant |-> reply]

\* the file of an earlier session: missing, or up to MAX_TURNS turns
InitHistory ==
  /\ MainIdle
  /\ FilesIdle
  /\ tts = NoSpeech
  /\ TrayIdle
  /\ updates = 0
  /\ \/ history_file = NoHistoryFile /\ turns_given = <<>>
     \/ \E k \in 0..MAX_TURNS :
          /\ turns_given = [i \in 1..k |-> Turn(i, "reply")]
          /\ history_file = [exists |-> TRUE, turns |-> turns_given]

\* main.py 109, 143, 147, ...: update_history(user_input, assistant_response)
UpdateHistory ==
  /\ updates < MaxUpdates
  /\ \E assistant_response \in {"", "reply"} :
       LET turn == Turn(Len(turns_given) + 1, assistant_response) IN
         /\ history_file' = update_history(history_file, turn)
         /\ turns_given' = Append(turns_given, turn)
  /\ updates' = updates + 1
  /\ UNCHANGED <<mainvars, filevars, tts, trayvars>>

NextHistory == UpdateHistory

SpecHistory == InitHistory /\ [][NextHistory]_vars

\* -------------------------------------------------------------- speak_text
\* largest max_retries a call of speak_text is given
MaxRetries == 2

\* how communicate.save under asyncio.wait_for may end: tts.py 50-66
SaveOutcomes == {"ok", "timeout", "connector_error", "handshake_error", "error"}

\* current_voice that keeps the voice asked for
current_voice_kept(voice, attempt) == voice

\* tts.py 40
current_voice(voice, attempt) == IF attempt = 0 THEN voice ELSE fallback_voice

\* tts.py 38-50: the for loop takes its next value and suspends in save, or
\* is exhausted: tts.py 69-72 and the finally clause, the call returns
NextAttempt(t, attempt) ==
  IF attempt < t.max_retries + 1
    THEN [t EXCEPT !.pc = "save", !.attempt = attempt,
                   !.voices = Append(@, current_voice(t.voice, attempt))]
    ELSE [t EXCEPT !.pc = "returned"]

\* a call speak_text(text, voice, max_retries=...) has just been made
InitSpeak ==
  /\ MainIdle
  /\ FilesIdle
  /\ HistoryIdle
  /\ TrayIdle
  /\ \E voice \in {default_voice, "en-US-AriaNeural"}, max_retries \in 0..MaxRetries :
       tts = [NoSpeech EXCEPT !.pc = "called", !.voice = voice, !.max_retries = max_retries]

\* tts.py 30-50: up to the first await
BeginSpeak ==
  /\ tts.pc = "called"
  /\ tts' = NextAttempt(tts, 0)
  /\ UNCHANGED <<mainvars, filevars, historyvars, trayvars>>

\* tts.py 50-66 and 69-98: save ends; on success the audio is played (or
\* playing fails, tts.py 87-90) and the call returns; on a timeout the loop
\* goes on at once; on an error the call sleeps one second
SaveDone ==
  /\ tts.pc = "save"
  /\ \E o \in SaveOutcomes, play_ok \in BOOLEAN :
       LET t == [tts EXCEPT !.outcomes = Append(@, o)] IN
         tts' = CASE o = "ok" -> [t EXCEPT !.success = TRUE, !.played = play_ok, !.pc = "returned"]
                  [] o = "timeout" -> NextAttempt(t, t.attempt + 1)
                  [] OTHER -> [t EXCEPT !.pc = "sleep"]
  /\ UNCHANGED <<mainvars, filevars, historyvars, trayvars>>

\* tts.py 60, 63, 66: asyncio.sleep(1) is over
SleepDone ==
  /\ tts.pc = "sleep"
  /\ tts' = NextAttempt(tts, tts.attempt + 1)
  /\ UNCHANGED <<mainvars, filevars, historyvars, trayvars>>

NextSpeak == BeginSpeak \/ SaveDone \/ SleepDone

SpecSpeak == InitSpeak /\ [][NextSpeak]_vars

\* ------------------------------------------- start_assistant, stop_assistant
\* largest number of tray menu items clicked
MaxClicks == 3

\* the states of an event loop in which it runs its task
Running == {"running", "cancelling"}

\* a call that has just been made; found says whether a loop was running
NewCall(kind, origin) ==
  [kind |-> kind, origin |-> origin, pc |-> "check", loop |-> 0,
   found |-> \E l \in 1..Len(loops) : loops[l] \in Running,
   left |-> <<0, 0>>]

\* the calls made from a tray menu that have not come back: each one keeps
\* the thread of its icon busy
Busy == {c \in 1..Len(calls) :
           calls[c].origin = "tray" /\ calls[c].pc \notin {"returned", "raised", "ended"}}

\* main.py 612-615: main() has started the assistant thread, which calls
\* start_assistant
InitTray ==
  /\ MainIdle
  /\ FilesIdle
  /\ HistoryIdle
  /\ tts = NoSpeech
  /\ assistant_loop = 0
  /\ assistant_task = 0
  /\ loops = <<>>
  /\ calls = << [kind |-> "start", origin |-> "thread", pc |-> "check", loop |-> 0,
                 found |-> FALSE, left |-> <<0, 0>>] >>
  /\ trays = 0
  /\ clicks = 0

Others == <<mainvars, filevars, historyvars, tts>>

\* main.py 605-606: the user clicks Start or Stop in the menu of an icon
\* whose thread is free
Click ==
  /\ clicks < MaxClicks
  /\ Cardinality(Busy) < trays
  /\ \E kind \in {"start", "stop"} : calls' = Append(calls, NewCall(kind, "tray"))
  /\ clicks' = clicks + 1
  /\ UNCHANGED <<assistant_loop, assistant_task, loops, trays, Others>>

\* main.py 526-528
StartCheck(c) ==
  /\ calls[c].kind = "start" /\ calls[c].pc = "check"
  /\ calls' = [calls EXCEPT ![c].pc = IF assistant_loop # 0 THEN "returned" ELSE "tray"]
  /\ UNCHANGED <<assistant_loop, assistant_task, loops, trays, clicks, Others>>

\* main.py 531-532
StartTray(c) ==
  /\ calls[c].kind = "start" /\ calls[c].pc = "tray"
  /\ trays' = trays + 1
  /\ calls' = [calls EXCEPT ![c].pc = "new_loop"]
  /\ UNCHANGED <<assistant_loop, assistant_task, loops, clicks, Others>>

\* main.py 535: assistant_loop = asyncio.new_event_loop()
StartNewLoop(c) ==
  /\ calls[c].kind = "start" /\ calls[c].pc = "new_loop"
  /\ loops' = Append(loops, "new")
  /\ assistant_loop' = Len(loops) + 1
  /\ calls' = [calls EXCEPT ![c].pc = "create_task", ![c].loop = Len(loops) + 1]
  /\ UNCHANGED <<assistant_task, trays, clicks, Others>>

\* main.py 536-537: assistant_task = assistant_loop.create_task(async_main());
\* the global is read again, and is None after a stop_assistant in between
StartCreateTask(c) ==
  /\ calls[c].kind = "start" /\ calls[c].pc = "create_task"
  /\ IF assistant_loop = 0 \/ loops[assistant_loop] # "new"
       THEN /\ calls' = [calls EXCEPT ![c].pc = "raised"]
            /\ UNCHANGED <<assistant_task, loops>>
       ELSE /\ assistant_task' = assistant_loop
            /\ loops' = [loops EXCEPT ![assistant_loop] = "ready"]
            /\ calls' = [calls EXCEPT ![c].pc = "run", ![c].loop = assistant_loop]
  /\ UNCHANGED <<assistant_loop, trays, clicks, Others>>

\* main.py 538: assistant_loop.run_until_complete(assistant_task)
StartRun(c) ==
  /\ calls[c].kind = "start" /\ calls[c].pc = "run"
  /\ IF assistant_loop = 0 \/ assistant_task = 0 \/ loops[assistant_loop] # "ready"
            \/ assistant_task # assistant_loop
       THEN /\ calls' = [calls EXCEPT ![c].pc = "raised"]
            /\ UNCHANGED loops
       ELSE /\ loops' = [loops EXCEPT ![assistant_loop] = "running"]
            /\ calls' = [calls EXCEPT ![c].pc = "running", ![c].loop = assistant_loop]
  /\ UNCHANGED <<assistant_loop, assistant_task, trays, clicks, Others>>

\* the task of a running loop is over: cancelled, or async_main raised; the
\* call that ran it leaves run_until_complete
TaskOver(l) ==
  /\ loops[l] \in Running
  /\ loops' = [loops EXCEPT ![l] = "stopped"]
  /\ calls' = [c \in 1..Len(calls) |->
                 IF calls[c].pc = "running" /\ calls[c].loop = l
                   THEN [calls[c] EXCEPT !.pc = "ended"] ELSE calls[c]]
  /\ UNCHANGED <<assistant_loop, assistant_task, trays, clicks, Others>>

\* main.py 543-545
StopCheck(c) ==
  /\ calls[c].kind = "stop" /\ calls[c].pc = "check"
  /\ calls' = [calls EXCEPT ![c].pc = IF assistant_loop = 0 THEN "returned" ELSE "cancel",
                             ![c].left = <<assistant_loop, assistant_task>>]
  /\ UNCHANGED <<assistant_loop, assistant_task, loops, trays, clicks, Others>>

\* main.py 549-565: assistant_task.cancel() when the task is not done; the
\* loop takes the cancellation when it next runs
StopCancel(c) ==
  /\ calls[c].kind = "stop" /\ calls[c].pc = "cancel"
  /\ loops' = IF assistant_task # 0 /\ loops[assistant_task] = "running"
                THEN [loops EXCEPT ![assistant_task] = "cancelling"] ELSE loops
  /\ calls' = [calls EXCEPT ![c].pc = "close"]
  /\ UNCHANGED <<assistant_loop, assistant_task, trays, clicks, Others>>

\* main.py 567-574: assistant_loop.close(); RuntimeError for a loop that
\* is running and AttributeError for None are caught
StopClose(c) ==
  /\ calls[c].kind = "stop" /\ calls[c].pc = "close"
  /\ loops' = IF assistant_loop # 0 /\ loops[assistant_loop] \notin Running
                THEN [loops EXCEPT ![assistant_loop] = "closed"] ELSE loops
  /\ calls' = [calls EXCEPT ![c].pc = "finally"]
  /\ UNCHANGED <<assistant_loop, assistant_task, trays, clicks, Others>>

\* main.py 576: assistant_loop = None
StopForgetLoop(c) ==
  /\ calls[c].kind = "stop" /\ calls[c].pc = "finally"
  /\ assistant_loop' = 0
  /\ calls' = [calls EXCEPT ![c].pc = "finally_task"]
  /\ UNCHANGED <<assistant_task, loops, trays, clicks, Others>>

\* main.py 577: assistant_task = None, and the call returns
StopForgetTask(c) ==
  /\ calls[c].kind = "stop" /\ calls[c].pc = "finally_task"
  /\ assistant_task' = 0
  /\ calls' = [calls EXCEPT ![c].pc = "returned", ![c].left = <<assistant_loop, 0>>]
  /\ UNCHANGED <<assistant_loop, loops, trays, clicks, Others>>

NextTray ==
  \/ Click
  \/ \E c \in 1..Len(calls) :
       \/ StartCheck(c) \/ StartTray(c) \/ StartNewLoop(c) \/ StartCreateTask(c) \/ StartRun(c)
       \/ StopCheck(c) \/ StopCancel(c) \/ StopClose(c) \/ StopForgetLoop(c)
       \/ StopForgetTask(c)
  \/ \E l \in 1..Len(loops) : TaskOver(l)

SpecTray == InitTray /\ [][NextTray]_vars

\* ------------------------------------------------------------ wake words
\* main.py 80-83, in the order of the list
wake_words ==
  << <<"m","a","r","v","i","n">>,
     <<"h","e","y"," ","m","a","r","v","i","n">>,
     <<"o","k"," ","m","a","r","v","i","n">>,
     <<"o","k","a","y"," ","m","a","r","v","i","n">>,
     <<"h","i"," ","m","a","r","v","i","n">>,
     <<"m","a","r","t","i","n">>,
     <<"h","e","y"," ","m","a","r","t","i","n">>,
     <<"o","k"," ","m","a","r","t","i","n">>,
     <<"o","k","a","y"," ","m","a","r","t","i","n">>,
     <<"h","i"," ","m","a","r","t","i","n">>,
     <<"c","o","m","p","u","t","e","r">>,
     <<"h","e","y"," ","c","o","m","p","u","t","e","r">>,
     <<"o","k"," ","c","o","m","p","u","t","e","r">>,
     <<"o","k","a","y"," ","c","o","m","p","u","t","e","r">>,
     <<"h","i"," ","c","o","m","p","u","t","e","r">>,
     <<"P","C">>,
     <<"h","e","y"," ","P","C">>,
     <<"o","k"," ","P","C">>,
     <<"o","k","a","y"," ","P","C">>,
     <<"h","i"," ","P","C">> >>

\* what the utterance goes on with after its first words
Commands == { <<>>, <<","," ","l","i","g","h","t","s"," ","o","n">>, <<"s">> }

\* first words that are no wake word
OtherOpenings ==
  { <<>>, <<"h","e","l","l","o">>, <<"t","h","e"," ","m","a","r","v","i","n">>, <<"m","a","r">>, <<"p">>, <<"h","e","y">>, <<"o","k","a","y">> }

\* the text in capital letters
upper(s) ==
  [i \in 1..Len(s) |-> IF \E j \in 1..26 : Lowers[j] = s[i]
                          THEN Uppers[CHOOSE j \in 1..26 : Lowers[j] = s[i]] ELSE s[i]]

\* the first letter in capitals, as the transcription writes a sentence
capitalize(s) == IF s = <<>> THEN s ELSE upper(<<s[1]>>) \o Tail(s)

\* the utterances transcribe_speech_to_text returns
Utterances ==
  {o \o c : o \in {wake_words[i] : i \in 1..Len(wake_words)}
                    \cup {lower(wake_words[i]) : i \in 1..Len(wake_words)}
                    \cup {upper(wake_words[i]) : i \in 1..Len(wake_words)}
                    \cup {capitalize(wake_words[i]) : i \in 1..Len(wake_words)}
                    \cup OtherOpenings,
            c \in Commands}

\* main.py 84-89: the first wake word of the list the lower-cased utterance
\* starts with; <<>> for None
matched_wake_word(user_input) ==
  LET user_input_lower == lower(user_input)
      hits == {i \in 1..Len(wake_words) : startswith(user_input_lower, wake_words[i])}
  IN IF hits = {} THEN <<>>
     ELSE wake_words[CHOOSE i \in hits : \A j \in hits : i <= j]

\* the turn loop waits in transcribe_speech_to_text, which returns user_input
InitWake ==
  /\ EnvIdle
  /\ pc = "listen"
  /\ \E user_input \in Utterances :
       trace = << Ev("speech", 0, "utterance", "", user_input) >>
  /\ action_tags = <<>>
  /\ idx = 1
  /\ todo = <<>>
  /\ awaiting = NoStep
  /\ result = "ok"
  /\ timers = NoTimers
  /\ timer_counter = 0
  /\ tasks = <<>>
  /\ now = 0

\* main.py 66-99: one round of the loop up to the call of get_ai_response
Hear ==
  /\ pc = "listen"
  /\ Len(trace) = 1
  /\ LET user_input == trace[1].arg IN
       IF user_input = <<>> \/ matched_wake_word(user_input) = <<>>
         THEN /\ trace' = Append(trace, Ev("main", 0, "waiting", "", user_input))
              /\ pc' = "listen"
         ELSE /\ trace' = Append(trace, Ev("main", 0, "get_ai_response", "", user_input))
              /\ pc' = "reply"
  /\ UNCHANGED <<action_tags, idx, todo, awaiting, result, timers, timer_counter, tasks, now>>
  /\ UNCHANGED env

NextWake == Hear

SpecWake == InitWake /\ [][NextWake]_vars

\* ------------------------------------------- timers under a fair event loop
NextFair ==
  GetReply(TimerMenu) \/ Dispatch \/ Resume \/ LoopEnd \/ StartSome \/ WakeSome \/ Advance

\* the event loop runs every coroutine that can run, and time passes; the
\* user need not say anything more
SpecFair ==
  /\ Init /\ [][NextFair]_vars
  /\ WF_vars(Dispatch) /\ WF_vars(Resume) /\ WF_vars(LoopEnd)
  /\ WF_vars(StartSome) /\ WF_vars(WakeSome) /\ WF_vars(Advance)

\* -------------------------------------------------------------- properties
Pos == DOMAIN trace

\* where the handler of directive k started
DispatchPos(k) == CHOOSE i \in Pos : trace[i].ev = "dispatch" /\ trace[i].k = k

\* directives k and k+1 belong to the same reply
SameReply(k) ==
  LET a == DispatchPos(k)
      b == DispatchPos(k+1)
  IN ~\E j \in (a+1)..(b-1) : trace[j].ev = "reply"

\* directive k handed its work to a set_timer task
CreatedTask(k) == \E i \in Pos : trace[i].ev = "create_task" /\ trace[i].k = k

\* the turn loop finished with directive k before position p, every
\* collaborator call of k having returned
DoneBefore(k, p) ==
  /\ \E j \in 1..(p-1) : trace[j].who = "main" /\ trace[j].k = k /\ trace[j].ev = "done"
  /\ \A c \in 1..(p-1) :
       trace[c].ev = "call" /\ trace[c].k = k =>
         \E j \in (c+1)..(p-1) : trace[j].ev = "return" /\ trace[j].k = k /\ trace[j].tag = trace[c].tag

\* the set_timer coroutine of directive k ran to its end before position p
TaskOverBefore(k, p) ==
  \E j \in 1..(p-1) : trace[j].who = "timer" /\ trace[j].k = k /\ trace[j].ev = "speak"

\* every handler starts on the directive at its place in the reply
ExtractionOrder ==
  \A i \in Pos :
    trace[i].ev = "dispatch" =>
      \E r \in 1..(i-1) :
        /\ trace[r].ev = "reply"
        /\ \A j \in (r+1)..(i-1) : trace[j].ev # "reply"
        /\ trace[i].k - trace[r].k \in 1..Len(trace[r].arg)
        /\ trace[i].arg = trace[r].arg[trace[i].k - trace[r].k]

C2_NoEscape == pc \notin {"finally", "stopped"}

\* no tested prefix of the chain starts the action name
C3_NoMatch(name) ==
  \A i \in 1..Len(Chain) :
    ~(Len(Chain[i][1]) <= Len(name) /\ SubSeq(name, 1, Len(Chain[i][1])) = Chain[i][1])

\* C3: the dispatch of a directive whose action name matches no handled
\* action (the empty name included) calls no collaborator, reports the
\* directive as unknown and moves on to the next directive of the reply
C3_UnknownSkipped ==
  [][ (pc = "loop" /\ C3_NoMatch(Handler[action_tags[idx]].action_name)) =>
        /\ Len(trace') = Len(trace) + 3
        /\ trace'[Len(trace) + 1].ev = "dispatch"
        /\ trace'[Len(trace) + 2].ev = "unknown"
        /\ trace'[Len(trace) + 3].ev = "done"
        /\ SubSeq(trace', 1, Len(trace)) = trace
        /\ timers' = timers /\ tasks' = tasks /\ timer_counter' = timer_counter
        /\ idx' = idx + 1
        /\ pc' = IF idx < Len(action_tags) THEN "loop" ELSE "listen" ]_vars

\* the empty directive was reported as unknown and the directive after it
\* in the same reply has been dispatched
C3_Witness ==
  \E i \in Pos : \E j \in Pos :
    /\ i < j
    /\ trace[i].ev = "unknown"
    /\ trace[DispatchPos(trace[i].k)].arg = <<>>
    /\ trace[j].ev = "dispatch" /\ trace[j].k = trace[i].k + 1
    /\ SameReply(trace[i].k)

\* the task that directive k created
TaskOf(k) == CHOOSE t \in 1..Len(tasks) : tasks[t].k = k

IsCompletion(e) == e.who = "timer" /\ e.tag = "Timer complete!"

\* C4 as stated: no completion is spoken for a timer that was registered
\* when a stop_timer ran
C4_StoppedSilent ==
  \A i \in Pos : \A j \in Pos :
    (i < j /\ trace[i].ev = "stop_timer" /\ IsCompletion(trace[j]))
      => tasks[TaskOf(trace[j].k)].name \notin trace[i].arg[1]

\* C5 as stated: once a stop_timer dispatched after a set_timer with a valid
\* duration has completed, the timer of that set_timer is not registered
C5_StoppedGone ==
  \A t \in 1..Len(tasks) :
    ( /\ Parsed[tasks[t].duration].ok
      /\ \E i \in Pos : trace[i].ev = "stop_timer" /\ trace[i].k > tasks[t].k )
    => tasks[t].name \notin DOMAIN timers

\* task t was created for a duration that parses
Valid(t) == t <= Len(tasks) /\ Parsed[tasks[t].duration].ok

\* task t has registered its timer under a generated name
Registered(t) == t <= Len(tasks) /\ tasks[t].name # NoName

\* the number of completions spoken for task t
Completions(t) ==
  Cardinality({i \in Pos : IsCompletion(trace[i]) /\ trace[i].k = tasks[t].k})

\* task t has deregistered its name and spoken its one completion
Notified(t) ==
  /\ t <= Len(tasks) /\ tasks[t].pc = "done"
  /\ tasks[t].name \notin DOMAIN timers
  /\ Completions(t) = 1

\* the event loop no longer runs
Halted == pc \in {"stopped", "exited"}

\* a completion is spoken at most once, by a task that registered, after
\* the computed number of seconds has passed since its sleep began
C6_Safe ==
  \A t \in 1..Len(tasks) :
    /\ Completions(t) <= 1
    /\ Completions(t) = 1 =>
         /\ tasks[t].name # NoName
         /\ tasks[t].seconds = Parsed[tasks[t].duration].seconds
         /\ now - tasks[t].slept_from >= tasks[t].seconds
         /\ tasks[t].name \notin DOMAIN timers

\* every task created so far for a duration that parses has been notified
AllNotified == \A t \in 1..Len(tasks) : Valid(t) => Notified(t)

\* every such task has registered, and has been notified unless the event
\* loop no longer runs
AllNotifiedOrHalted ==
  \A t \in 1..Len(tasks) : Valid(t) => Registered(t) /\ (Notified(t) \/ Halted)

IsIntegerText(s) ==
  /\ s # <<>>
  /\ LET b == IF s[1] = "-" THEN Tail(s) ELSE s IN
       b # <<>> /\ \A i \in 1..Len(b) : IsDigit(b[i])

IsUnitText(s) == lower(s) \in UnitTokens

\* '<integer> <unit>', '<integer><unit>' or a bare integer, the unit being
\* in the unit table
WellFormedDuration(d) ==
  \/ IsIntegerText(d)
  \/ \E i \in 1..(Len(d) - 1) :
       /\ IsIntegerText(SubSeq(d, 1, i))
       /\ \/ IsUnitText(SubSeq(d, i+1, Len(d)))
          \/ d[i+1] = " " /\ IsUnitText(SubSeq(d, i+2, Len(d)))

\* C7 as stated: a set_timer call whose duration is not well formed speaks
\* a failure and registers nothing
C7_InvalidRejected ==
  \A t \in 1..Len(tasks) :
    (tasks[t].pc # "ready" /\ ~WellFormedDuration(tasks[t].duration)) =>
      /\ tasks[t].name = NoName
      /\ DOMAIN timers = {} /\ timer_counter = 0
      /\ \E i \in Pos : trace[i].who = "timer" /\ trace[i].ev = "speak" /\ ~IsCompletion(trace[i])
      /\ ~\E i \in Pos : IsCompletion(trace[i])

\* seconds per unit, by the family of the unit token
UnitFactor(u) == IF u[1] = "s" THEN 1 ELSE IF u[1] = "m" THEN 60 ELSE 3600

\* task t registered and called asyncio.sleep(x)
Slept(t, x) ==
  /\ tasks[t].name # NoName /\ tasks[t].seconds = x
  /\ \E i \in Pos : trace[i].ev = "sleep" /\ trace[i].k = tasks[t].k /\ trace[i].arg = <<x>>

\* once started, the task of 'n u', of 'nu' and of a bare n, for n in ns,
\* sleeps n times the factor of u
SleepsFor(ns) ==
  \A t \in 1..Len(tasks) :
    tasks[t].pc # "ready" =>
      \A n \in ns :
        /\ tasks[t].duration = str(n) => Slept(t, n)
        /\ \A u \in UnitTokens :
             (tasks[t].duration \in {str(n) \o <<" ">> \o u, str(n) \o u})
               => Slept(t, n * UnitFactor(u))

FiveMinutes ==
  (action_tags = <<d_timer_5m>> /\ Len(tasks) = 1 /\ tasks[1].pc # "ready") => Slept(1, 300)

C9_UniqueNames ==
  /\ \A t \in 1..Len(tasks) : \A u \in 1..Len(tasks) :
       (t # u /\ tasks[t].name # NoName /\ tasks[u].name # NoName)
         => tasks[t].name # tasks[u].name
  /\ \A n \in DOMAIN timers :
       Cardinality({t \in 1..Len(tasks) : tasks[t].pc = "sleeping" /\ tasks[t].name = n}) = 1

\* two timers are outstanding at once
C9_Witness ==
  \E t \in 1..Len(tasks) : \E u \in 1..Len(tasks) :
    /\ t # u
    /\ tasks[t].pc = "sleeping" /\ tasks[u].pc = "sleeping"
    /\ {tasks[t].name, tasks[u].name} \subseteq DOMAIN timers

\* C10: a stop_timer dispatch completes without an error, speaks nothing,
\* leaves no timer registered, and changes nothing when none was
\* registered, so that a second stop_timer leaves the state of the first
C10_StopIdempotent ==
  [][ (pc = "loop" /\ Handler[action_tags[idx]].branch = "stop_timer") =>
        /\ pc' = (IF idx < Len(action_tags) THEN "loop" ELSE "listen")
        /\ idx' = idx + 1
        /\ DOMAIN timers' = {}
        /\ DOMAIN timers = {} => timers' = timers
        /\ tasks' = tasks /\ timer_counter' = timer_counter
        /\ Len(trace') = Len(trace) + 3
        /\ SubSeq(trace', 1, Len(trace)) = trace
        /\ \A i \in (Len(trace) + 1)..Len(trace') :
             trace'[i].who = "main" /\ trace'[i].ev \in {"dispatch", "stop_timer", "done"} ]_vars

\* stop_timer ran with no timer registered, twice in a row
C10_Witness ==
  \E i \in Pos : \E j \in Pos :
    /\ trace[i].ev = "stop_timer" /\ trace[j].ev = "stop_timer"
    /\ trace[j].k = trace[i].k + 1
    /\ trace[i].arg[1] = {} /\ trace[j].arg[1] = {}
    /\ DOMAIN timers = {}

\* a collaborator call of the given tag was made
Called(tag) == \E i \in Pos : trace[i].ev = "call" /\ trace[i].tag = tag

\* C11 as stated: whenever a shut_down or a reboot directive has ended the
\* process, the teardown of the device controller was called and had
\* returned before the exit
C11_TeardownBeforeExit ==
  \A i \in Pos :
    trace[i].ev = "exit" =>
      \E c \in 1..(i-1) : \E r \in (c+1)..(i-1) :
        /\ trace[c].ev = "call" /\ trace[c].tag = "meross.shutdown"
        /\ trace[r].ev = "return" /\ trace[r].tag = "meross.shutdown"

\* the reply the turn loop received and the text it made to speak
ReplyText == trace[2].arg
SpokenText == trace[3].arg

\* the positions of s where an opening, a closing marker stands, in any case
Openers(s) == {i \in 1..(Len(s) - 7) : lower(SubSeq(s, i, i + 7)) = open_tag}
Closers(s) == {i \in 1..(Len(s) - 8) : lower(SubSeq(s, i, i + 8)) = close_tag}

Least(S) == CHOOSE x \in S : \A y \in S : x <= y

\* one left-to-right scan from position i: the next opening marker, ended
\* by the first closing marker after it
RECURSIVE ScanPairs(_, _)
ScanPairs(s, i) ==
  LET os == {o \in Openers(s) : o >= i /\ \E c \in Closers(s) : c >= o + 8} IN
    IF os = {} THEN <<>>
    ELSE LET o == Least(os)
             c == Least({x \in Closers(s) : x >= o + 8})
         IN <<SubSeq(s, o + 8, c - 1)>> \o ScanPairs(s, c + 9)

HasRun(s) == \E i \in 1..(Len(s) - 1) : s[i] \in Whitespace /\ s[i+1] \in Whitespace

\* a span from a '<' to the next '>' with something in between
HasMarkup(s) ==
  \E i \in 1..Len(s) : \E j \in (i+2)..Len(s) :
    s[i] = "<" /\ s[j] = ">" /\ \A k \in (i+1)..(j-1) : s[k] # ">"

\* C13 as stated: the text to speak holds no directive span, no markup
\* span, no run of white space and no white space at its ends; a reply
\* without markers gives no directive
C13_Speakable ==
  pc = "extracted" =>
    /\ ScanPairs(SpokenText, 1) = <<>>
    /\ ~HasMarkup(SpokenText)
    /\ ~HasRun(SpokenText)
    /\ SpokenText = strip(SpokenText)
    /\ (Openers(ReplyText) = {} \/ Closers(ReplyText) = {}) => action_tags = <<>>

\* the directive parsed, and the action name and parameters detected
RawText == action_tags[1]
DetectedName == trace[2].arg[1]
DetectedParams == trace[2].arg[2]

IsUpper(c) == \E i \in 1..26 : Uppers[i] = c

\* a character lower-cased, a space made an underscore
NormChar(c) == IF c = " " THEN "_" ELSE lower_char(c)

\* C14: the action name is the normalised directive up to its first colon
\* (all of it when it has none), so it holds no upper-case letter, no space
\* and no colon; the parameters are normalised as well, and
\* Play_Song:Bohemian Rhapsody gives play_song with [bohemian_rhapsody]
C14_NameNormalised ==
  pc = "detected" =>
    /\ Len(DetectedName) <= Len(RawText)
    /\ \A i \in 1..Len(DetectedName) : DetectedName[i] = NormChar(RawText[i])
    /\ \A i \in 1..Len(DetectedName) :
         ~IsUpper(DetectedName[i]) /\ DetectedName[i] \notin {" ", ":"}
    /\ Len(DetectedName) = Len(RawText) \/ RawText[Len(DetectedName) + 1] = ":"
    /\ \A n \in 1..Len(DetectedParams) : \A i \in 1..Len(DetectedParams[n]) :
         ~IsUpper(DetectedParams[n][i]) /\ DetectedParams[n][i] # " "
    /\ RawText = d_play_song =>
         /\ DetectedName = s_play_song
         /\ DetectedParams = << <<"b","o","h","e","m","i","a","n","_","r","h","a","p","s","o","d","y">> >>

\* Play_Song:Bohemian Rhapsody has been parsed
C14_Witness ==
  pc = "detected" /\ RawText = d_play_song /\ DetectedName = s_play_song

\* the text after the first colon of the normalised directive
AfterColon(raw) ==
  LET c == Least({i \in 1..Len(raw) : raw[i] = ":"}) IN
    [i \in 1..(Len(raw) - c) |-> NormChar(raw[c + i])]

CommaPositions(t) == {i \in 1..Len(t) : t[i] = ","}

\* the n-th of a set of positions; 0 for n = 0, one past the text for the
\* position after the last
NthComma(t, n) ==
  IF n = 0 THEN 0
  ELSE IF n > Cardinality(CommaPositions(t)) THEN Len(t) + 1
  ELSE CHOOSE i \in CommaPositions(t) :
         Cardinality({j \in CommaPositions(t) : j < i}) = n - 1

\* C15: no colon, no parameters; otherwise the text after the first colon is
\* split on every comma, each token trimmed, in its order: one parameter
\* more than there are commas, later colons left inside
C15_ParamsSplit ==
  pc = "detected" =>
    IF \A i \in 1..Len(RawText) : RawText[i] # ":"
      THEN DetectedParams = <<>>
      ELSE LET t == AfterColon(RawText) IN
        /\ Len(DetectedParams) = Cardinality(CommaPositions(t)) + 1
        /\ \A n \in 1..Len(DetectedParams) :
             DetectedParams[n] = strip(SubSeq(t, NthComma(t, n-1) + 1, NthComma(t, n) - 1))

\* three parameters were split off, one of them holding a colon
C15_Witness ==
  /\ pc = "detected"
  /\ Len(DetectedParams) = 3
  /\ \E n \in 1..3 : \E i \in 1..Len(DetectedParams[n]) : DetectedParams[n][i] = ":"

\* the number of parameters written in a directive: none without a colon,
\* else one more than the commas after the first colon
ParamCount(raw) ==
  IF \A i \in 1..Len(raw) : raw[i] # ":" THEN 0
  ELSE Cardinality(CommaPositions(AfterColon(raw))) + 1

\* the n-th parameter written in a directive that has one
ParamText(raw, n) ==
  LET t == AfterColon(raw) IN strip(SubSeq(t, NthComma(t, n-1) + 1, NthComma(t, n) - 1))

\* the branch that the one directive of the reply was dispatched to
Dispatched(branch) ==
  \E i \in Pos : trace[i].ev = "dispatch" /\ trace[i].tag = branch

FileOpsTags ==
  {"file_ops.read_file", "file_ops.write_file", "file_ops.list_files",
   "file_ops.delete_file", "file_ops.edit_file", "file_ops.append_to_file",
   "file_ops.create_directory", "file_ops.move_file", "file_ops.copy_file",
   "file_ops.search_files"}

NoCall == ~\E i \in Pos : trace[i].ev = "call"

Spoke(msgs) == \E i \in Pos : trace[i].ev = "speak" /\ trace[i].tag \in msgs

InsufficientMsgs ==
  {"Insufficient parameters for writing a file", "Insufficient parameters for editing a file",
   "Insufficient parameters for appending to a file",
   "Insufficient parameters for moving a file", "Insufficient parameters for copying a file"}

\* C16: write_file, append_to_file, copy_file or move_file dispatched with
\* fewer than two parameters, or edit_file with fewer than three, calls no
\* FileOperations method and speaks an 'insufficient parameters' message
C16_Insufficient ==
  ( \/ \E b \in {"write_file", "append_to_file", "copy_file", "move_file"} :
         Dispatched(b) /\ ParamCount(RawText) < 2
    \/ Dispatched("edit_file") /\ ParamCount(RawText) < 3 )
  => /\ ~\E i \in Pos : trace[i].ev = "call" /\ trace[i].tag \in FileOpsTags
     /\ Spoke(InsufficientMsgs)

\* write_file with one parameter was answered with the message
C16_Witness ==
  /\ RawText = Directive(s_write_file, << <<"a">> >>)
  /\ Spoke({"Insufficient parameters for writing a file"})
  /\ pc = "listen"

\* C17 as stated: the flag handed to write_file and append_to_file is true
\* unless the third parameter is exactly 'false'; true without a third one
C17_FlagDefault ==
  \A i \in Pos :
    (trace[i].ev = "call" /\ trace[i].tag \in {"file_ops.write_file", "file_ops.append_to_file"})
      => trace[i].arg[3] =
           (ParamCount(RawText) < 3 \/ ParamText(RawText, 3) # <<"f","a","l","s","e">>)

NoParamMsgs ==
  {"No filename specified for reading", "No filename specified for deletion",
   "No directory name specified for creation",
   "No search query specified for browsing the internet.",
   "No song specified", "No playlist specified", "No search text specified"}

\* C18 as stated: an action that needs one parameter, dispatched without
\* it or with an empty one, makes no collaborator call and gives a 'no
\* parameter specified' message
C18_NoParameter ==
  ( /\ \E b \in {"play_song", "play_playlist", "read_file", "delete_file",
                   "create_directory", "browse_internet", "search_files"} : Dispatched(b)
    /\ (ParamCount(RawText) = 0 \/ ParamText(RawText, 1) = <<>>) )
  => NoCall /\ Spoke(NoParamMsgs)

\* the text is made of decimal digits only
AllDecimal(t) == t # <<>> /\ \A i \in 1..Len(t) : IsDigit(t[i])

\* C19 as stated: volume_up and volume_down call the music client with the
\* integer value of a first parameter made of digits only, and with 10 in
\* every other case; no error comes up
C19_VolumeDelta ==
  \A b \in {"volume_up", "volume_down"} :
    Dispatched(b) =>
      LET first == IF ParamCount(RawText) = 0 THEN <<>> ELSE ParamText(RawText, 1)
          delta == IF AllDecimal(first) THEN DigitsValue(first) ELSE 10
      IN /\ \E i \in Pos : /\ trace[i].ev = "call"
                             /\ trace[i].tag = (IF b = "volume_up" THEN "spotify.volume_up"
                                                                   ELSE "spotify.volume_down")
                             /\ trace[i].arg = <<delta>>
         /\ ~\E i \in Pos : trace[i].ev = "raise"
         /\ pc \notin {"finally", "stopped"}

\* the separator after the action-name token: white space and at most one colon
IsSeparator(x) ==
  /\ \A i \in 1..Len(x) : x[i] \in Whitespace \cup {":"}
  /\ Cardinality({i \in 1..Len(x) : x[i] = ":"}) <= 1

\* typed is what stands in rest after its separator, white space at the
\* end left off, character for character
Verbatim(rest, typed) ==
  \E a \in 0..Len(rest) : \E b \in a..Len(rest) :
    /\ typed = SubSeq(rest, a + 1, b)
    /\ IsSeparator(SubSeq(rest, 1, a))
    /\ \A i \in (b+1)..Len(rest) : rest[i] \in Whitespace
    /\ typed # <<>> => typed[1] \notin Whitespace /\ typed[Len(typed)] \notin Whitespace
    /\ (typed # <<>> /\ typed[1] = ":") => \E i \in 1..a : rest[i] = ":"

\* C20: the text typed for a dictate or write_code directive is the whole
\* original text after the action-name token and its separator, as one
\* string: not split on commas, not lower-cased, spaces, commas and colons
\* kept; dictate always types
C20_TailVerbatim ==
  /\ \A i \in Pos :
       (trace[i].ev = "call" /\ trace[i].tag = "keyboard.write") =>
         /\ Len(trace[i].arg) = 1
         /\ \/ Dispatched("dictate") /\
               Verbatim(SubSeq(RawText, Len(s_dictate) + 1, Len(RawText)), trace[i].arg[1])
            \/ Dispatched("write_code") /\
               Verbatim(SubSeq(RawText, Len(s_write_code) + 1, Len(RawText)), trace[i].arg[1])
  /\ Dispatched("dictate") => Called("keyboard.write")
  /\ (Dispatched("write_code") /\ ~Called("keyboard.write")) =>
       IsSeparator(strip(SubSeq(RawText, Len(s_write_code) + 1, Len(RawText))))

\* 'Dictate: Hi, Bob: ok' was typed as 'Hi, Bob: ok'
C20_Witness ==
  \E i \in Pos :
    /\ trace[i].ev = "call" /\ trace[i].tag = "keyboard.write"
    /\ trace[i].arg = << <<"H","i",","," ","B","o","b",":"," ","o","k">> >>
    /\ RawText[1] = "D"

\* the action name parsed from the one directive of the reply
ActionName == Handler[RawText].action_name

\* C21 as stated: the names the dispatcher handles are the names of
\* action_strings: every registered name has a branch, and a directive
\* reaches a branch only under a registered name
C21_Lockstep ==
  /\ \A n \in action_strings : Branch(n) # "unknown"
  /\ \A i \in Pos :
       (trace[i].ev = "dispatch" /\ trace[i].tag # "unknown")
         => \E n \in action_strings : startswith(ActionName, n)

\* the places of the chain whose name is a prefix of the action name
PrefixPlaces(name) == {i \in 1..Len(Chain) : startswith(name, Chain[i][1])}

\* the places holding a longest such name
LongestPlaces(name) ==
  {i \in PrefixPlaces(name) :
     \A j \in PrefixPlaces(name) : Len(Chain[j][1]) <= Len(Chain[i][1])}

\* C22: the branch a directive is dispatched to is the branch of the longest
\* handled name that is a prefix of its action name (the final else when
\* there is none); two handled names never are prefixes of the same action
\* name, so the order of the chain decides nothing
C22_LongestPrefix ==
  \A i \in Pos :
    trace[i].ev = "dispatch" =>
      /\ PrefixPlaces(ActionName) = {} => trace[i].tag = "unknown"
      /\ \A j \in LongestPlaces(ActionName) : trace[i].tag = Chain[j][2]
      /\ Cardinality(PrefixPlaces(ActionName)) <= 1

\* 'stop_timer_now' and 'stop_timer_stop_timer' went to the stop_timer branch
C22_Witness ==
  /\ Dispatched("stop_timer")
  /\ Len(ActionName) > Len(s_stop_timer)

\* the side effect of a branch that takes no parameter
SideEffectTag(branch) ==
  CASE branch = "turn_on_light" -> "meross.turn_on_light"
    [] branch = "turn_off_light" -> "meross.turn_off_light"
    [] branch = "pause_music" -> "spotify.pause_music"
    [] branch = "unpause_music" -> "spotify.unpause_music"
    [] branch = "stop_music" -> "spotify.stop_music"
    [] OTHER -> branch

\* the events in which the side effect of the branch is attempted: a call
\* of a method the collaborator has, the stopping of the timers, the
\* speaking of the time
Attempts(branch) ==
  {i \in Pos :
     \/ /\ trace[i].ev = "call"
        /\ trace[i].tag = SideEffectTag(branch)
        /\ trace[i].tag \in CollaboratorMethods
     \/ branch = "stop_timer" /\ trace[i].ev = "stop_timer"
     \/ branch = "get_time" /\ trace[i].ev = "speak" /\ trace[i].tag = "HH:MM"}

\* C24 as stated: a directive of an action that takes no parameter attempts
\* the side effect exactly once, with or without parameters written after
\* the name, and nothing of the parameters is handed over
C24_ZeroParam ==
  \A b \in {"turn_on_light", "turn_off_light", "pause_music", "unpause_music",
            "stop_music", "stop_timer", "get_time"} :
    Dispatched(b) =>
      /\ Cardinality(Attempts(b)) = 1
      /\ \A i \in Attempts(b) : trace[i].arg \in {<<>>, <<{}>>}

\* the path lies in the artifacts directory (or is the directory itself)
InArtifacts(p) == IsAncestor(ArtifactsDir(platform), p)

\* the part of a tree that lies outside the artifacts directory
OutsidePart(fs) ==
  [files |-> [p \in {q \in DOMAIN fs.files : ~InArtifacts(q)} |-> fs.files[p]],
   dirs |-> {q \in fs.dirs : ~InArtifacts(q)}]

\* C23 as stated: whatever the filename arguments, a FileOperations call
\* opens, creates, removes and lists only paths inside the artifacts
\* directory, and leaves everything outside it as it was
C23_Confined ==
  fs_calls > 0 =>
    /\ \A p \in fs_call.touched : InArtifacts(p)
    /\ OutsidePart(Tree) = OutsidePart(fs_call.before)

MutatingOps ==
  {"write_file", "append_to_file", "edit_file", "delete_file", "create_directory",
   "copy_file", "move_file"}

\* C29 as stated: a mutating FileOperations call that returns False leaves
\* the files, their contents and the directories as they were
C29_FailureFrame ==
  (fs_call.op \in MutatingOps /\ fs_call.result = FALSE) => Tree = fs_call.before

\* the utterance heard in this round of the loop
Utterance == trace[1].arg

\* C25 as stated: the utterance is sent to the language model exactly when
\* it begins, letter case aside, with one of the wake words of the list
C25_WakeWord ==
  Len(trace) = 2 =>
    ( trace[2].ev = "get_ai_response"
      <=> \E i \in 1..Len(wake_words) : startswith(lower(Utterance), lower(wake_words[i])) )

\* the last n of the turns given so far
LastGiven(n) ==
  IF Len(turns_given) > n
    THEN SubSeq(turns_given, Len(turns_given) - n + 1, Len(turns_given))
    ELSE turns_given

\* C26: after update_history calls the file holds at most MAX_TURNS turns,
\* and they are the last turns given, in the order given; a call adds the
\* one turn at the end and drops turns from the front only
C26_HistoryBounded ==
  updates > 0 =>
    /\ history_file.exists
    /\ Len(history_file.turns) <= MAX_TURNS
    /\ history_file.turns = LastGiven(MAX_TURNS)
    /\ history_file.turns[Len(history_file.turns)] = turns_given[Len(turns_given)]

\* the file was full and a call has dropped its oldest turn
C26_Witness ==
  /\ updates > 0
  /\ Len(turns_given) > MAX_TURNS
  /\ Len(history_file.turns) = MAX_TURNS
  /\ history_file.turns[1] # turns_given[1]

\* C27: speak_text makes at most max_retries + 1 attempts, the first with
\* the voice asked for and every later one with the fallback voice, none
\* after a successful one; when all have failed it returns without playing
C27_SpeakRetries ==
  /\ Len(tts.voices) <= tts.max_retries + 1
  /\ \A i \in 1..Len(tts.voices) :
       tts.voices[i] = (IF i = 1 THEN tts.voice ELSE fallback_voice)
  /\ \A i \in 1..Len(tts.outcomes) : tts.outcomes[i] = "ok" => Len(tts.voices) = i
  /\ ( /\ Len(tts.outcomes) = tts.max_retries + 1
       /\ \A i \in 1..Len(tts.outcomes) : tts.outcomes[i] # "ok"
       /\ tts.pc # "sleep" )
     => tts.pc = "returned" /\ ~tts.played /\ ~tts.success
  /\ tts.played => tts.success

\* three attempts failed, one of them by a timeout, and the call returned
C27_Witness ==
  /\ tts.pc = "returned"
  /\ tts.max_retries = 2
  /\ Len(tts.outcomes) = 3
  /\ tts.outcomes[1] = "timeout"
  /\ tts.outcomes[3] = "handshake_error"
  /\ tts.voices[2] = fallback_voice
  /\ tts.voice # default_voice

\* C28 as stated: never two event loops run an assistant task; a call of
\* start_assistant made while an assistant runs comes back without making
\* a loop; when stop_assistant returns both globals are None
C28_OneAssistant ==
  /\ Cardinality({l \in 1..Len(loops) : loops[l] \in Running}) <= 1
  /\ \A c \in 1..Len(calls) :
       /\ (calls[c].kind = "start" /\ calls[c].found) => calls[c].pc \in {"check", "returned"}
       /\ (calls[c].kind = "stop" /\ calls[c].pc = "returned") => calls[c].left = <<0, 0>>

\* C30 as stated: the directives the extractor finds in the cleaned reply are
\* those of the completion, in the same order
C30_DirectivesKept == pc = "extracted" => findall(ReplyText) = findall(trace[1].arg)

====
